---- MODULE Spec2Model ----
(***************************************************************************)
(* Model of the typesentinel runtime argument type checker.                *)
(*                                                                         *)
(* Two decorator modules are modelled side by side: typesentinel.decorator *)
(* (the current one, handlers receive a TypeCheckContext) and              *)
(* type_checking.decorator (the older one, handlers receive the failed     *)
(* results as positional arguments).  A behaviour is: one decoration of a  *)
(* function, then any number of calls of the resulting wrapper.            *)
(*                                                                         *)
(* Python strings that are built by formatting are sequences of string     *)
(* pieces, so that two messages are equal exactly when they are built from *)
(* the same pieces.  Python values are strings naming the value; TypeOf    *)
(* gives type(value).__name__.                                             *)
(***************************************************************************)
EXTENDS Integers, Sequences, FiniteSets, TLC

(***************************************************************************)
(* Bounds of the model.                                                    *)
(***************************************************************************)
\* arguments of one call, positional and keyword together
MaxArgs == 2
\* checks of one decorator, explicit and shorthand together
MaxChecks == 2

(***************************************************************************)
(* Python values and types.                                                *)
(***************************************************************************)
None == "<None>"
EmptyTuple == "()"
SomeTuple == "(...)"
EmptyDict == "{}"
SomeDict == "{...}"

ArgValues == {"1", "s", "5.5"}

TypeOf(v) ==
  CASE v = "1" -> "int"
    [] v = "s" -> "str"
    [] v = "5.5" -> "float"
    [] v = "True" -> "bool"
    [] v = EmptyTuple \/ v = SomeTuple -> "tuple"
    [] v = EmptyDict \/ v = SomeDict -> "dict"
    [] OTHER -> "NoneType"

\* the classes a value of the named type is an instance of (bool subclasses int)
Mro(t) == IF t = "bool" THEN {"bool", "int", "object"} ELSE {t, "object"}

IsInstance(v, members) == \E i \in 1..Len(members) : members[i] \in Mro(TypeOf(v))

PlainType(t) == [form |-> "type", members |-> <<t>>]
UnionType(ms) == [form |-> "UnionType", members |-> ms]
TypingUnion(ms) == [form |-> "Union", members |-> ms]
NoAnnotation == [form |-> "empty", members |-> <<>>]

IntKey(i) == [kt |-> "int", i |-> i, s |-> ""]
StrKey(s) == [kt |-> "str", i |-> 0, s |-> s]
\* a key of another type (kt is the name of its type, s its str()), and the
\* key a dict does not have
OtherKey(kt, s) == [kt |-> kt, i |-> 0, s |-> s]
AbsentKey == [kt |-> "absent", i |-> 0, s |-> ""]

\* str(key)
KeyStr(key) ==
  IF key.kt # "int" THEN key.s
  ELSE CASE key.i = 0 -> "0"
         [] key.i = 1 -> "1"
         [] key.i = 2 -> "2"
         [] key.i = 3 -> "3"
         [] key.i = 4 -> "4"
         [] key.i = -1 -> "-1"
         [] key.i = -2 -> "-2"
         [] OTHER -> "n"

RECURSIVE JoinNames(_, _)
JoinNames(ms, sep) ==
  IF Len(ms) = 0 THEN <<>>
  ELSE IF Len(ms) = 1 THEN <<ms[1]>>
  ELSE <<ms[1], sep>> \o JoinNames(Tail(ms), sep)

get_type_name(tp) ==
  IF tp.form = "type" THEN <<tp.members[1]>>
  ELSE JoinNames(tp.members, " | ")

(***************************************************************************)
(* TypeCheck (type_check.py).                                              *)
(***************************************************************************)
valid_arg_kind_map(kind) == IF kind = "positional" THEN "int" ELSE "str"

DefaultMessage(name, expected_type) ==
  <<"Invalid type for argument '", name, "': expected ">> \o get_type_name(expected_type)

\* Faulty variant of __post_init__: the key is not checked against arg_kind.
PostInitError_without_kind_check(key, expected_type, arg_kind) ==
  IF Mro(key.kt) \cap {"str", "int"} = {} THEN "TypeError"
  ELSE IF expected_type.form \notin {"type", "Union", "UnionType"} THEN "TypeError"
  ELSE None

\* the exception __post_init__ raises, or None
PostInitError(key, expected_type, arg_kind) ==
  IF Mro(key.kt) \cap {"str", "int"} = {} THEN "TypeError"
  ELSE IF expected_type.form \notin {"type", "Union", "UnionType"} THEN "TypeError"
  ELSE IF valid_arg_kind_map(arg_kind) \notin Mro(key.kt) THEN "ValueError"
  ELSE None

\* the message of that exception
PostInitMessage(key, expected_type, arg_kind) ==
  IF Mro(key.kt) \cap {"str", "int"} = {} THEN <<"key must be str or int">>
  ELSE IF expected_type.form \notin {"type", "Union", "UnionType"}
  THEN <<"expected_type must be a Python type or Union">>
  ELSE <<arg_kind, " arguments require a ", valid_arg_kind_map(arg_kind), " key, got ", key.kt>>

\* the object the dataclass constructor leaves behind when __post_init__ returns
TypeCheck(cls, key, expected_type, arg_kind, message, name) ==
  LET nm == IF name = None THEN KeyStr(key) ELSE name
  IN [cls |-> cls, key |-> key, expected_type |-> expected_type, arg_kind |-> arg_kind,
      name |-> nm,
      message |-> IF message = <<>> THEN DefaultMessage(nm, expected_type) ELSE message]

from_pair(key, expected_type) ==
  TypeCheck("DefaultTypeCheckKwarg", StrKey(key), expected_type, "keyword", <<>>, None)

\* Faulty variant of error_message: the actual type is left out.
error_message_without_actual(tc, actual_type) == tc.message

error_message(tc, actual_type) == tc.message \o <<", got ", actual_type>>

\* Faulty variant of validate: only the first member of a union is tried.
validate_first_member_only(tc, value) == tc.expected_type.members[1] \in Mro(TypeOf(value))

\* validate: TRUE when the value is returned, FALSE when TypeError is raised
validate(tc, value) == IsInstance(value, tc.expected_type.members)

copy_with_name(tc, name) == [tc EXCEPT !.name = name]

\* what an operation on a TypeCheck gives its caller: the exception raised
\* (None when it returns) with its message, and the value returned
Result(exc, msg, ret) == [exc |-> exc, msg |-> msg, ret |-> ret]

\* cls(key, expected_type, arg_kind, message, name): the dataclass constructor
\* with __post_init__
TypeCheck_init(cls, key, expected_type, arg_kind, message, name) ==
  IF PostInitError(key, expected_type, arg_kind) # None
  THEN Result(PostInitError(key, expected_type, arg_kind),
              PostInitMessage(key, expected_type, arg_kind), <<>>)
  ELSE Result(None, <<>>, TypeCheck(cls, key, expected_type, arg_kind, message, name))

\* tc.validate(value) as its caller sees it
validate_call(tc, value) ==
  IF validate(tc, value) THEN Result(None, <<>>, value)
  ELSE Result("TypeError", error_message(tc, TypeOf(value)), <<>>)

\* the value of the "arg_kind" entry of a dict: t is the name of its type, v
\* its value; AbsentKind is the entry that is not there
RawKind(t, v) == [t |-> t, v |-> v]
AbsentKind == RawKind("absent", "")

\* a dict handed to from_dict; message = <<>> and name = None are the entries
\* that are absent (data.get gives None for them)
Dict(key, expected_type, arg_kind, message, name) ==
  [key |-> key, expected_type |-> expected_type, arg_kind |-> arg_kind,
   message |-> message, name |-> name]

\* Faulty variant of from_dict: a string arg_kind is ignored and the default
\* kind is used.
from_dict_ignores_string_kind(cls, data) ==
  IF data.arg_kind.t \notin {"absent", "str", "ArgKind"}
  THEN [exc |-> "TypeError", msg |-> <<"Invalid arg_kind value: ", data.arg_kind.v>>, ret |-> <<>>]
  ELSE IF data.key.kt = "absent" THEN [exc |-> "KeyError", msg |-> <<"'key'">>, ret |-> <<>>]
  ELSE TypeCheck_init(cls, data.key, data.expected_type,
                      IF data.arg_kind.t = "ArgKind" THEN data.arg_kind.v ELSE "positional",
                      data.message, data.name)

\* cls.from_dict(data)
from_dict(cls, data) ==
  LET raw_kind == IF data.arg_kind.t = "absent" THEN RawKind("ArgKind", "positional")
                  ELSE data.arg_kind
  IN IF raw_kind.t = "str" /\ raw_kind.v \notin {"positional", "keyword"}
     THEN Result("ValueError", <<"'", raw_kind.v, "' is not a valid ArgKind">>, <<>>)
     ELSE IF raw_kind.t \notin {"str", "ArgKind"}
     THEN Result("TypeError", <<"Invalid arg_kind value: ", raw_kind.v>>, <<>>)
     ELSE IF data.key.kt = "absent" THEN Result("KeyError", <<"'key'">>, <<>>)
     ELSE TypeCheck_init(cls, data.key, data.expected_type, raw_kind.v, data.message, data.name)

(***************************************************************************)
(* Functions and inspect.Signature.bind / BoundArguments.apply_defaults.   *)
(* A parameter is [name, kind, default, annotation]; default = None means  *)
(* the parameter has no default.                                           *)
(***************************************************************************)
Param(name, kind, default, annotation) ==
  [name |-> name, kind |-> kind, default |-> default, annotation |-> annotation]

Funcs == {
  \* def fn(a, b)
  [name |-> "fn_ab", is_async |-> FALSE,
   params |-> <<Param("a", "POSITIONAL_OR_KEYWORD", None, NoAnnotation),
                Param("b", "POSITIONAL_OR_KEYWORD", None, NoAnnotation)>>],
  \* def fn(a: int, /, b: str)
  [name |-> "fn_posonly", is_async |-> FALSE,
   params |-> <<Param("a", "POSITIONAL_ONLY", None, PlainType("int")),
                Param("b", "POSITIONAL_OR_KEYWORD", None, PlainType("str"))>>],
  \* def fn(a, b: int = "s")
  [name |-> "fn_default", is_async |-> FALSE,
   params |-> <<Param("a", "POSITIONAL_OR_KEYWORD", None, NoAnnotation),
                Param("b", "POSITIONAL_OR_KEYWORD", "s", PlainType("int"))>>],
  \* def fn(*args: int, **kwargs: str)
  [name |-> "fn_var", is_async |-> FALSE,
   params |-> <<Param("args", "VAR_POSITIONAL", None, PlainType("int")),
                Param("kwargs", "VAR_KEYWORD", None, PlainType("str"))>>],
  \* async def fn(a, *, b: str = "s")
  [name |-> "fn_async", is_async |-> TRUE,
   params |-> <<Param("a", "POSITIONAL_OR_KEYWORD", None, NoAnnotation),
                Param("b", "KEYWORD_ONLY", "s", PlainType("str"))>>]
}

ParamNames(params) == [i \in 1..Len(params) |-> params[i].name]

\* number of parameters that take positional arguments
NumPositional(params) ==
  Cardinality({i \in 1..Len(params) : params[i].kind \in {"POSITIONAL_ONLY", "POSITIONAL_OR_KEYWORD"}})

HasKind(params, kind) == \E i \in 1..Len(params) : params[i].kind = kind

\* index of the parameter a keyword argument named n binds to, 0 if none
KeywordTarget(params, n) ==
  IF \E i \in 1..Len(params) : params[i].name = n /\ params[i].kind \in {"POSITIONAL_OR_KEYWORD", "KEYWORD_ONLY"}
  THEN CHOOSE i \in 1..Len(params) : params[i].name = n /\ params[i].kind \in {"POSITIONAL_OR_KEYWORD", "KEYWORD_ONLY"}
  ELSE 0

\* index in kwargs (a sequence of <<name, value>>) of the keyword n, 0 if none
KwIndex(kwargs, n) ==
  IF \E j \in 1..Len(kwargs) : kwargs[j][1] = n
  THEN CHOOSE j \in 1..Len(kwargs) : kwargs[j][1] = n
  ELSE 0

\* signature.bind(*args, **kwargs) raises TypeError
BindFails(params, args, kwargs) ==
  LET npos == NumPositional(params)
  IN \/ Len(args) > npos /\ ~HasKind(params, "VAR_POSITIONAL")
     \/ \E j \in 1..Len(kwargs) :
          LET t == KeywordTarget(params, kwargs[j][1])
          IN \/ t = 0 /\ ~HasKind(params, "VAR_KEYWORD")
             \/ t # 0 /\ t <= npos /\ t <= Len(args)
     \/ \E i \in 1..Len(params) :
          /\ params[i].kind \notin {"VAR_POSITIONAL", "VAR_KEYWORD"}
          /\ params[i].default = None
          /\ ~(i <= npos /\ i <= Len(args))
          /\ ~(params[i].kind # "POSITIONAL_ONLY" /\ KwIndex(kwargs, params[i].name) # 0)

\* bound.arguments after bind and apply_defaults: one entry per declared
\* parameter, in signature order
BoundArguments(params, args, kwargs) ==
  LET npos == NumPositional(params)
      val(i) ==
        LET p == params[i]
        IN CASE p.kind = "VAR_POSITIONAL" ->
                  IF Len(args) > npos THEN SomeTuple ELSE EmptyTuple
             [] p.kind = "VAR_KEYWORD" ->
                  IF \E j \in 1..Len(kwargs) : KeywordTarget(params, kwargs[j][1]) = 0
                  THEN SomeDict ELSE EmptyDict
             [] OTHER ->
                  IF i <= npos /\ i <= Len(args) THEN args[i]
                  ELSE IF p.kind # "POSITIONAL_ONLY" /\ KwIndex(kwargs, p.name) # 0
                       THEN kwargs[KwIndex(kwargs, p.name)][2]
                       ELSE p.default
  IN [names |-> ParamNames(params), values |-> [i \in 1..Len(params) |-> val(i)]]

InBound(bound, n) == \E i \in 1..Len(bound.names) : bound.names[i] = n
BoundValue(bound, n) == bound.values[CHOOSE i \in 1..Len(bound.names) : bound.names[i] = n]

(***************************************************************************)
(* TypeCheckDecorator: checks, renaming, resolution, validation.           *)
(***************************************************************************)
TypeCheckResult(tc, value, passed) == [type_check |-> tc, value |-> value, passed |-> passed]

\* a value found where a check is expected: is names its type ("TypeCheck",
\* "dict" or another type), obj is the TypeCheck or the dict
Entry(is, obj) == [is |-> is, obj |-> obj]

\* the type_checks argument: shape names its type ("TypeCheck", "dict",
\* "list", "None" or another type), items are the entries of a list, or the
\* one TypeCheck or dict
TypeChecksArg(shape, items) == [shape |-> shape, items |-> items]
ListOf(tcs) == TypeChecksArg("list", [i \in 1..Len(tcs) |-> Entry("TypeCheck", tcs[i])])

\* the loop over the entries, from entry i on
RECURSIVE NormalizeItems(_, _, _)
NormalizeItems(items, i, normalized) ==
  IF i > Len(items) THEN Result(None, <<>>, normalized)
  ELSE IF items[i].is = "TypeCheck"
  THEN NormalizeItems(items, i + 1, Append(normalized, items[i].obj))
  ELSE IF items[i].is = "dict"
  THEN LET r == from_dict("TypeCheck", items[i].obj)
       IN IF r.exc # None THEN r
          ELSE NormalizeItems(items, i + 1, Append(normalized, r.ret))
  ELSE Result("TypeError", <<"Invalid type_checks entry: ", items[i].is>>, <<>>)

\* Faulty variant of the normalization: the keyword shorthand comes first.
normalize_checks_shorthand_first(type_checks, kw_shorthand) ==
  LET explicit ==
        IF type_checks.shape \in {"TypeCheck", "dict", "list"}
        THEN NormalizeItems(type_checks.items, 1, <<>>)
        ELSE IF type_checks.shape = "None" THEN [exc |-> None, msg |-> <<>>, ret |-> <<>>]
        ELSE [exc |-> "TypeError", msg |-> <<"type_checks must be a TypeCheck, dict, list, or None">>,
              ret |-> <<>>]
  IN IF explicit.exc # None THEN explicit
     ELSE [exc |-> None, msg |-> <<>>,
           ret |-> [j \in 1..Len(kw_shorthand) |-> from_pair(kw_shorthand[j][1], kw_shorthand[j][2])]
                     \o explicit.ret]

\* TypeCheckDecorator._normalize_checks for the type_checks argument and the
\* keyword shorthand (a sequence of <<key, expected type>> in the order
\* written): the normalized list, or the exception raised
normalize_checks(type_checks, kw_shorthand) ==
  LET explicit ==
        IF type_checks.shape \in {"TypeCheck", "dict", "list"}
        THEN NormalizeItems(type_checks.items, 1, <<>>)
        ELSE IF type_checks.shape = "None" THEN Result(None, <<>>, <<>>)
        ELSE Result("TypeError", <<"type_checks must be a TypeCheck, dict, list, or None">>, <<>>)
  IN IF explicit.exc # None THEN explicit
     ELSE Result(None, <<>>,
                 explicit.ret
                   \o [j \in 1..Len(kw_shorthand) |-> from_pair(kw_shorthand[j][1], kw_shorthand[j][2])])

\* Faulty variant of the renaming: a custom name is not kept.
rename_check_if_needed_drops_custom_name(tc, arg_names) ==
  IF tc.arg_kind = "positional" /\ tc.key.kt = "int"
     /\ 0 <= tc.key.i /\ tc.key.i < Len(arg_names)
  THEN copy_with_name(tc, arg_names[tc.key.i + 1])
  ELSE IF tc.arg_kind = "keyword" THEN copy_with_name(tc, KeyStr(tc.key))
  ELSE tc

\* TypeCheckDecorator._rename_check_if_needed
rename_check_if_needed(tc, arg_names) ==
  IF tc.name # None /\ tc.name # KeyStr(tc.key) THEN tc
  ELSE IF tc.arg_kind = "positional" /\ tc.key.kt = "int"
          /\ 0 <= tc.key.i /\ tc.key.i < Len(arg_names)
       THEN copy_with_name(tc, arg_names[tc.key.i + 1])
  ELSE IF tc.arg_kind = "keyword" THEN copy_with_name(tc, KeyStr(tc.key))
  ELSE tc

\* Faulty variant of the resolution: a positional key counts the parameters
\* from one.
resolve_argument_value_counts_from_one(tc, bound) ==
  LET n == Len(bound.names)
  IN IF tc.arg_kind = "positional"
     THEN IF tc.key.i > n \/ tc.key.i < 1
          THEN [exc |-> "IndexError", value |-> None]
          ELSE [exc |-> None, value |-> bound.values[tc.key.i]]
     ELSE IF tc.arg_kind = "keyword"
     THEN IF ~InBound(bound, tc.key.s)
          THEN [exc |-> IF tc.cls = "DefaultTypeCheckKwarg" THEN "ValueError" ELSE "KeyError",
                value |-> None]
          ELSE [exc |-> None, value |-> BoundValue(bound, tc.key.s)]
     ELSE [exc |-> "ValueError", value |-> None]

\* [exc, value]: the value returned, or the exception raised
resolve_argument_value(tc, bound) ==
  LET n == Len(bound.names)
  IN IF tc.arg_kind = "positional"
     THEN IF tc.key.i >= n \/ tc.key.i < 0 - n
          THEN [exc |-> "IndexError", value |-> None]
          ELSE [exc |-> None,
                value |-> bound.values[IF tc.key.i >= 0 THEN tc.key.i + 1 ELSE n + tc.key.i + 1]]
     ELSE IF tc.arg_kind = "keyword"
     THEN IF ~InBound(bound, tc.key.s)
          THEN [exc |-> IF tc.cls = "DefaultTypeCheckKwarg" THEN "ValueError" ELSE "KeyError",
                value |-> None]
          ELSE [exc |-> None, value |-> BoundValue(bound, tc.key.s)]
     ELSE [exc |-> "ValueError", value |-> None]

\* Faulty variant of the loop: it stops at the first failed check instead of
\* collecting every failure.
RECURSIVE ValidateLoop_stops_at_first_failure(_, _, _, _, _, _, _)
ValidateLoop_stops_at_first_failure(rename, checks, bound, i, failures, has_value, value) ==
  IF i > Len(checks) THEN [exc |-> None, all |-> failures]
  ELSE
    LET tc == checks[i]
        renamed_tc == IF rename THEN rename_check_if_needed(tc, bound.names) ELSE tc
    IN IF tc.arg_kind = "keyword" /\ tc.cls = "DefaultTypeCheckKwarg" /\ ~InBound(bound, tc.key.s)
       THEN ValidateLoop_stops_at_first_failure(rename, checks, bound, i + 1, failures, has_value, value)
       ELSE
         LET r == resolve_argument_value(tc, bound)
         IN IF r.exc = None
            THEN IF validate(renamed_tc, r.value)
                 THEN ValidateLoop_stops_at_first_failure(rename, checks, bound, i + 1,
                        Append(failures, TypeCheckResult(renamed_tc, r.value, TRUE)), TRUE, r.value)
                 ELSE [exc |-> None, all |-> Append(failures, TypeCheckResult(renamed_tc, r.value, FALSE))]
            ELSE IF has_value
            THEN [exc |-> None, all |-> Append(failures, TypeCheckResult(renamed_tc, value, FALSE))]
            ELSE [exc |-> "UnboundLocalError", all |-> failures]

\* the loop of _validate_arguments from check i on.  failures is the list
\* built so far; has_value says whether the local variable `value` has been
\* assigned, value is what it holds.  rename says whether the check is
\* renamed before validation (typesentinel) or used as is (type_checking).
RECURSIVE ValidateLoop(_, _, _, _, _, _, _)
ValidateLoop(rename, checks, bound, i, failures, has_value, value) ==
  IF i > Len(checks) THEN [exc |-> None, all |-> failures]
  ELSE
    LET tc == checks[i]
        renamed_tc == IF rename THEN rename_check_if_needed(tc, bound.names) ELSE tc
    IN IF tc.arg_kind = "keyword" /\ tc.cls = "DefaultTypeCheckKwarg" /\ ~InBound(bound, tc.key.s)
       THEN ValidateLoop(rename, checks, bound, i + 1, failures, has_value, value)
       ELSE
         LET r == resolve_argument_value(tc, bound)
         IN IF r.exc = None
            THEN ValidateLoop(rename, checks, bound, i + 1,
                              Append(failures, TypeCheckResult(renamed_tc, r.value, validate(renamed_tc, r.value))),
                              TRUE, r.value)
            ELSE IF has_value
            THEN ValidateLoop(rename, checks, bound, i + 1,
                              Append(failures, TypeCheckResult(renamed_tc, value, FALSE)),
                              has_value, value)
            ELSE [exc |-> "UnboundLocalError", all |-> failures]

\* Faulty variant of the loop's effect on the decorator: the renamed check
\* is stored back in the list.
normalized_checks_after_renaming_in_place(rename, checks, bound) ==
  [i \in 1..Len(checks) |->
     IF rename THEN rename_check_if_needed(checks[i], bound.names) ELSE checks[i]]

\* self.normalized_checks once _validate_arguments is through: the loop
\* reads each check, and renames and validates a copy (renamed_tc); nothing
\* is assigned to the list or to a check in it
normalized_checks_after(rename, checks, bound) ==
  [i \in 1..Len(checks) |-> checks[i]]

FailedOf(all) == SelectSeq(all, LAMBDA r : ~r.passed)
PassedOf(all) == SelectSeq(all, LAMBDA r : r.passed)

\* typesentinel.decorator: [exc, all, failed]
validate_arguments(checks, bound) ==
  LET v == ValidateLoop(TRUE, checks, bound, 1, <<>>, FALSE, None)
  IN [exc |-> v.exc, all |-> v.all, failed |-> FailedOf(v.all)]

\* type_checking.decorator: [exc, all, failed]
old_validate_arguments(checks, bound) ==
  LET v == ValidateLoop(FALSE, checks, bound, 1, <<>>, FALSE, None)
  IN [exc |-> v.exc, all |-> v.all, failed |-> FailedOf(v.all)]

(***************************************************************************)
(* Annotation-derived checks.                                              *)
(***************************************************************************)
\* typesentinel.decorator._apply_annotation_type_checks: the checks list
RECURSIVE annotation_type_checks(_, _)
annotation_type_checks(params, idx) ==
  IF idx > Len(params) THEN <<>>
  ELSE
    LET p == params[idx]
        rest == annotation_type_checks(params, idx + 1)
    IN IF p.annotation = NoAnnotation THEN rest
       ELSE IF p.kind \in {"KEYWORD_ONLY", "POSITIONAL_OR_KEYWORD"}
       THEN IF p.default = None
            THEN <<TypeCheck("TypeCheck", StrKey(p.name), p.annotation, "keyword", <<>>, p.name)>> \o rest
            ELSE <<from_pair(p.name, p.annotation)>> \o rest
       ELSE IF p.kind = "POSITIONAL_ONLY"
       THEN <<TypeCheck("TypeCheck", IntKey(idx - 1), p.annotation, "positional", <<>>, p.name)>> \o rest
       ELSE rest

\* type_checking.decorator._apply_annotation_type_checks: the checks list
RECURSIVE old_annotation_type_checks(_, _)
old_annotation_type_checks(params, idx) ==
  IF idx > Len(params) THEN <<>>
  ELSE
    LET p == params[idx]
        rest == old_annotation_type_checks(params, idx + 1)
    IN IF p.annotation = NoAnnotation THEN rest
       ELSE IF p.kind \in {"KEYWORD_ONLY", "POSITIONAL_OR_KEYWORD"}
       THEN IF p.default = None
            THEN <<TypeCheck("TypeCheck", StrKey(p.name), p.annotation, "keyword", <<>>, None)>> \o rest
            ELSE <<from_pair(p.name, p.annotation)>> \o rest
       ELSE IF p.kind = "POSITIONAL_ONLY"
       THEN <<TypeCheck("TypeCheck", IntKey(idx - 1), p.annotation, "positional", <<>>, None)>> \o rest
       ELSE rest

(***************************************************************************)
(* Outcomes of a call, failure handlers.                                   *)
(***************************************************************************)
Pending == [kind |-> "pending", exc |-> None, msg |-> <<>>, ret |-> <<>>]
Raised(exc, msg) == [kind |-> "raise", exc |-> exc, msg |-> msg, ret |-> <<>>]
Returned(ret) == [kind |-> "return", exc |-> None, msg |-> <<>>, ret |-> ret]
ReturnedNone == Returned(<<>>)

\* what the wrapped function returns for a call: a token naming the call, so
\* that results of different calls differ; started = FALSE is the coroutine
\* object of an async function whose body has not run
FuncResult(func, args, kwargs, started) ==
  <<[func |-> func.name, args |-> args, kwargs |-> kwargs, started |-> started]>>

FuncCall(args, kwargs) == [args |-> args, kwargs |-> kwargs]

\* the on_failure argument: none, or a handler that is a plain or a coroutine
\* function and whose body returns or raises
OnFailures == {"none", "sync_ok", "sync_raise", "async_ok", "async_raise"}
iscoroutinefunction(handler) == handler \in {"async_ok", "async_raise"}

\* what the body of a custom handler does
CustomHandlerBody(handler) ==
  CASE handler = "sync_raise" -> Raised("ValueError", <<"sync fail">>)
    [] handler = "async_raise" -> Raised("TypeError", <<"async fail">>)
    [] OTHER -> ReturnedNone

\* Faulty variant of the context: every result is handed over as a failure.
TypeCheckContext_all_as_failed(func, args, kwargs, all_results, failed_results, arg_names) ==
  [func |-> func.name, args |-> args, kwargs |-> kwargs, all_results |-> all_results,
   failed_results |-> all_results, arg_names |-> arg_names]

\* TypeCheckDecorator._create_context
TypeCheckContext(func, args, kwargs, all_results, failed_results, arg_names) ==
  [func |-> func.name, args |-> args, kwargs |-> kwargs, all_results |-> all_results,
   failed_results |-> failed_results, arg_names |-> arg_names]

NoContext == [func |-> None, args |-> <<>>, kwargs |-> <<>>, all_results |-> <<>>,
              failed_results |-> <<>>, arg_names |-> <<>>]

\* one invocation of a handler: which handler, and what it was passed (a
\* context in typesentinel, the failed results as positional arguments in
\* type_checking)
HandlerCall(who, context, positional) ==
  [who |-> who, context |-> context, positional |-> positional]

\* the module-level name type_check_default_handler: the function it is
\* bound to, read each time failures are handled
VARIABLE type_check_default_handler

\* what the module binds the name to when it is imported
ModuleDefaultHandler == "default_on_type_check_failure"
\* another callable the name can be rebound to: a plain function that raises
ReplacementHandler == "replacement"
ReplacementHandlerBody == [kind |-> "raise", exc |-> "RuntimeError", msg |-> <<"replaced">>, ret |-> <<>>]

\* Faulty variant of the default handler: it reports the last failure, not
\* the first.
default_on_type_check_failure_reports_last(context) ==
  IF context.failed_results = <<>> THEN [kind |-> "return", exc |-> None, msg |-> <<>>, ret |-> <<>>]
  ELSE LET last == context.failed_results[Len(context.failed_results)]
       IN [kind |-> "raise", exc |-> "TypeError",
           msg |-> last.type_check.message \o <<", got ", TypeOf(last.value)>>, ret |-> <<>>]

\* typesentinel.decorator.default_on_type_check_failure
default_on_type_check_failure(context) ==
  IF context.failed_results = <<>> THEN ReturnedNone
  ELSE LET first == context.failed_results[1]
       IN Raised("TypeError", first.type_check.message \o <<", got ", TypeOf(first.value)>>)

\* expected_type.__name__ (CPython 3.11: absent on types.UnionType)
DunderName(tp) == IF tp.form = "type" THEN tp.members[1] ELSE "Union"

RECURSIVE OldMessages(_)
OldMessages(failures) ==
  IF Len(failures) = 0 THEN <<>>
  ELSE LET r == failures[1]
           line == <<r.type_check.arg_kind, " argument '", r.type_check.name, "' expected type ",
                     DunderName(r.type_check.expected_type), ", got ", TypeOf(r.value)>>
       IN IF Len(failures) = 1 THEN line ELSE line \o <<"\n">> \o OldMessages(Tail(failures))

\* type_checking.decorator.default_on_type_check_failure
old_default_on_type_check_failure(failures) ==
  IF \E i \in 1..Len(failures) : failures[i].type_check.expected_type.form = "UnionType"
  THEN Raised("AttributeError", <<"'types.UnionType' object has no attribute '__name__'">>)
  ELSE Raised("TypeError", <<"Type check failed:\n">> \o OldMessages(failures))

\* a handler run to the end by a plain call: [calls, bodies, out]
HandlerRun(calls, bodies, out) == [calls |-> calls, bodies |-> bodies, out |-> out]

\* which function `self.on_failure or type_check_default_handler` is when no
\* on_failure was given
DefaultWho ==
  IF type_check_default_handler = ModuleDefaultHandler THEN "default" ELSE "replacement"

\* typesentinel: what calling type_check_default_handler(context) does
DefaultHandlerBody(context) ==
  IF type_check_default_handler = ModuleDefaultHandler
  THEN default_on_type_check_failure(context)
  ELSE ReplacementHandlerBody

\* type_checking: what calling type_check_default_handler(*failed) does
OldDefaultHandlerBody(failed) ==
  IF type_check_default_handler = ModuleDefaultHandler
  THEN old_default_on_type_check_failure(failed)
  ELSE ReplacementHandlerBody

\* Faulty variant of the dispatch: the default handler is the function the
\* module defines, whatever the module-level name is bound to now.
handle_failures_ignores_rebinding(on_failure, context) ==
  IF context.failed_results = <<>> THEN HandlerRun(<<>>, 0, ReturnedNone)
  ELSE IF on_failure = "none"
  THEN HandlerRun(<<HandlerCall("default", context, <<>>)>>, 1, default_on_type_check_failure(context))
  ELSE IF iscoroutinefunction(on_failure)
  THEN HandlerRun(<<HandlerCall("custom", context, <<>>)>>, 0, ReturnedNone)
  ELSE HandlerRun(<<HandlerCall("custom", context, <<>>)>>, 1, CustomHandlerBody(on_failure))

\* typesentinel.decorator.TypeCheckDecorator._handle_failures
handle_failures(on_failure, context) ==
  IF context.failed_results = <<>> THEN HandlerRun(<<>>, 0, ReturnedNone)
  ELSE IF on_failure = "none"
  THEN HandlerRun(<<HandlerCall(DefaultWho, context, <<>>)>>, 1, DefaultHandlerBody(context))
  ELSE IF iscoroutinefunction(on_failure)
  THEN HandlerRun(<<HandlerCall("custom", context, <<>>)>>, 0, ReturnedNone)
  ELSE HandlerRun(<<HandlerCall("custom", context, <<>>)>>, 1, CustomHandlerBody(on_failure))

\* type_checking.decorator.TypeCheckDecorator._handle_failures
old_handle_failures(on_failure, failed) ==
  IF failed = <<>> THEN HandlerRun(<<>>, 0, ReturnedNone)
  ELSE IF on_failure = "none"
  THEN HandlerRun(<<HandlerCall(DefaultWho, NoContext, failed)>>, 1, OldDefaultHandlerBody(failed))
  ELSE IF iscoroutinefunction(on_failure)
  THEN HandlerRun(<<HandlerCall("custom", NoContext, failed)>>, 0, ReturnedNone)
  ELSE HandlerRun(<<HandlerCall("custom", NoContext, failed)>>, 1, CustomHandlerBody(on_failure))

\* a handler started from a coroutine: awaiting = TRUE when the handler is a
\* coroutine function, whose body runs when the await is driven
HandlerStart(calls, bodies, out, awaiting) ==
  [calls |-> calls, bodies |-> bodies, out |-> out, awaiting |-> awaiting]

\* Faulty variant of the async dispatch: a coroutine handler is called but
\* its coroutine is never awaited.
handle_failures_async_not_awaited(on_failure, context) ==
  IF context.failed_results = <<>> THEN HandlerStart(<<>>, 0, ReturnedNone, FALSE)
  ELSE IF on_failure = "none"
  THEN HandlerStart(<<HandlerCall(DefaultWho, context, <<>>)>>, 1,
                    DefaultHandlerBody(context), FALSE)
  ELSE IF iscoroutinefunction(on_failure)
  THEN HandlerStart(<<HandlerCall("custom", context, <<>>)>>, 0, ReturnedNone, FALSE)
  ELSE HandlerStart(<<HandlerCall("custom", context, <<>>)>>, 1, CustomHandlerBody(on_failure), FALSE)

\* typesentinel.decorator.TypeCheckDecorator._handle_failures_async
handle_failures_async(on_failure, context) ==
  IF context.failed_results = <<>> THEN HandlerStart(<<>>, 0, ReturnedNone, FALSE)
  ELSE IF on_failure = "none"
  THEN HandlerStart(<<HandlerCall(DefaultWho, context, <<>>)>>, 1,
                    DefaultHandlerBody(context), FALSE)
  ELSE IF iscoroutinefunction(on_failure)
  THEN HandlerStart(<<HandlerCall("custom", context, <<>>)>>, 0, Pending, TRUE)
  ELSE HandlerStart(<<HandlerCall("custom", context, <<>>)>>, 1, CustomHandlerBody(on_failure), FALSE)

\* type_checking.decorator.TypeCheckDecorator._handle_failures_async
old_handle_failures_async(on_failure, failed) ==
  IF failed = <<>> THEN HandlerStart(<<>>, 0, ReturnedNone, FALSE)
  ELSE IF on_failure = "none"
  THEN HandlerStart(<<HandlerCall(DefaultWho, NoContext, failed)>>, 1,
                    OldDefaultHandlerBody(failed), FALSE)
  ELSE IF iscoroutinefunction(on_failure)
  THEN HandlerStart(<<HandlerCall("custom", NoContext, failed)>>, 0, Pending, TRUE)
  ELSE HandlerStart(<<HandlerCall("custom", NoContext, failed)>>, 1, CustomHandlerBody(on_failure), FALSE)

\* Faulty variant of the wrapper choice: only the wrapped function decides.
create_wrapper_by_function_only(func, on_failure) ==
  IF func.is_async THEN "async" ELSE "sync"

\* TypeCheckDecorator._create_wrapper: which wrapper is built
create_wrapper(func, on_failure) ==
  LET is_func_async == func.is_async
      is_handler_async == on_failure # "none" /\ iscoroutinefunction(on_failure)
  IN IF is_func_async \/ is_handler_async THEN "async" ELSE "sync"

(***************************************************************************)
(* The wrappers.  Each returns the state a call is left in:                *)
(*   pc        "done", or where the coroutine is suspended                 *)
(*   validated _validate_arguments returned                                *)
(*   all, failed   its two results                                         *)
(*   hcalls, hbodies   handler invocations, handler bodies run             *)
(*   fcalls, fbodies   calls of the wrapped function, bodies run           *)
(*   out       what the caller gets                                        *)
(***************************************************************************)
Step(pc_, validated_, all, failed, hcalls, hbodies, fcalls, fbodies, out) ==
  [pc |-> pc_, validated |-> validated_, all |-> all, failed |-> failed,
   hcalls |-> hcalls, hbodies |-> hbodies, fcalls |-> fcalls, fbodies |-> fbodies, out |-> out]

BindError == Raised("TypeError", <<"bind">>)

\* Faulty variant of the forwarding call: the keyword arguments are dropped.
PlainCall_drops_kwargs(func, args, kwargs, v) ==
  Step("done", TRUE, v.all, v.failed, <<>>, 0, <<FuncCall(args, <<>>)>>,
       IF func.is_async THEN 0 ELSE 1,
       Returned(FuncResult(func, args, <<>>, ~func.is_async)))

\* func(*args, **kwargs) by a plain call: the body of a plain function runs,
\* a coroutine function only returns its coroutine object
PlainCall(func, args, kwargs, v) ==
  Step("done", TRUE, v.all, v.failed, <<>>, 0, <<FuncCall(args, kwargs)>>,
       IF func.is_async THEN 0 ELSE 1,
       Returned(FuncResult(func, args, kwargs, ~func.is_async)))

\* Faulty variant of the synchronous wrapper: after the handler returns it
\* falls through to the wrapped function.
wrapper_falls_through(d, args, kwargs) ==
  IF BindFails(d.func.params, args, kwargs)
  THEN Step("done", FALSE, <<>>, <<>>, <<>>, 0, <<>>, 0, BindError)
  ELSE
    LET bound == BoundArguments(d.func.params, args, kwargs)
        v == validate_arguments(d.normalized_checks, bound)
        context == TypeCheckContext(d.func, args, kwargs, v.all, v.failed, bound.names)
        h == handle_failures(d.on_failure, context)
        f == PlainCall(d.func, args, kwargs, v)
    IN IF v.exc # None
       THEN Step("done", FALSE, <<>>, <<>>, <<>>, 0, <<>>, 0, Raised(v.exc, <<"value">>))
       ELSE IF h.out.kind = "raise"
       THEN Step("done", TRUE, v.all, v.failed, h.calls, h.bodies, <<>>, 0, h.out)
       ELSE [f EXCEPT !.hcalls = h.calls, !.hbodies = h.bodies]

\* typesentinel.decorator: wrapper of _create_sync_wrapper
wrapper(d, args, kwargs) ==
  IF BindFails(d.func.params, args, kwargs)
  THEN Step("done", FALSE, <<>>, <<>>, <<>>, 0, <<>>, 0, BindError)
  ELSE
    LET bound == BoundArguments(d.func.params, args, kwargs)
        v == validate_arguments(d.normalized_checks, bound)
    IN IF v.exc # None
       THEN Step("done", FALSE, <<>>, <<>>, <<>>, 0, <<>>, 0, Raised(v.exc, <<"value">>))
       ELSE IF v.failed # <<>>
       THEN LET context == TypeCheckContext(d.func, args, kwargs, v.all, v.failed, bound.names)
                h == handle_failures(d.on_failure, context)
            IN Step("done", TRUE, v.all, v.failed, h.calls, h.bodies, <<>>, 0,
                    IF h.out.kind = "raise" THEN h.out ELSE ReturnedNone)
       ELSE PlainCall(d.func, args, kwargs, v)

\* Faulty variant of the older synchronous wrapper: it returns after the
\* handler, as the wrapper of typesentinel.decorator does.
old_wrapper_returns_after_handler(d, args, kwargs) ==
  IF BindFails(d.func.params, args, kwargs)
  THEN Step("done", FALSE, <<>>, <<>>, <<>>, 0, <<>>, 0, BindError)
  ELSE
    LET bound == BoundArguments(d.func.params, args, kwargs)
        v == old_validate_arguments(d.normalized_checks, bound)
    IN IF v.exc # None
       THEN Step("done", FALSE, <<>>, <<>>, <<>>, 0, <<>>, 0, Raised(v.exc, <<"value">>))
       ELSE IF v.failed # <<>>
       THEN LET h == old_handle_failures(d.on_failure, v.failed)
            IN Step("done", TRUE, v.all, v.failed, h.calls, h.bodies, <<>>, 0,
                    IF h.out.kind = "raise" THEN h.out ELSE ReturnedNone)
       ELSE PlainCall(d.func, args, kwargs, v)

\* type_checking.decorator: wrapper of _create_sync_wrapper
old_wrapper(d, args, kwargs) ==
  IF BindFails(d.func.params, args, kwargs)
  THEN Step("done", FALSE, <<>>, <<>>, <<>>, 0, <<>>, 0, BindError)
  ELSE
    LET bound == BoundArguments(d.func.params, args, kwargs)
        v == old_validate_arguments(d.normalized_checks, bound)
    IN IF v.exc # None
       THEN Step("done", FALSE, <<>>, <<>>, <<>>, 0, <<>>, 0, Raised(v.exc, <<"value">>))
       ELSE LET h == old_handle_failures(d.on_failure, v.failed)
                f == PlainCall(d.func, args, kwargs, v)
            IN IF h.out.kind = "raise"
               THEN Step("done", TRUE, v.all, v.failed, h.calls, h.bodies, <<>>, 0, h.out)
               ELSE [f EXCEPT !.hcalls = h.calls, !.hbodies = h.bodies]

\* the tail of both async wrappers: return await func(...) or return func(...)
AsyncTail(func, args, kwargs, v, hcalls, hbodies) ==
  IF func.is_async
  THEN Step("await_func", TRUE, v.all, v.failed, hcalls, hbodies, <<FuncCall(args, kwargs)>>, 0, Pending)
  ELSE Step("done", TRUE, v.all, v.failed, hcalls, hbodies, <<FuncCall(args, kwargs)>>, 1,
            Returned(FuncResult(func, args, kwargs, TRUE)))

\* Faulty variant of the asynchronous wrapper: a call that does not bind is
\* still handed to the failure handler.
async_wrapper_handles_unbound_call(d, args, kwargs) ==
  IF BindFails(d.func.params, args, kwargs)
  THEN Step("done", FALSE, <<>>, <<>>, <<HandlerCall(DefaultWho, NoContext, <<>>)>>, 1, <<>>, 0, BindError)
  ELSE
    LET bound == BoundArguments(d.func.params, args, kwargs)
        v == validate_arguments(d.normalized_checks, bound)
    IN IF v.exc # None
       THEN Step("done", FALSE, <<>>, <<>>, <<>>, 0, <<>>, 0, Raised(v.exc, <<"value">>))
       ELSE IF v.failed # <<>>
       THEN LET context == TypeCheckContext(d.func, args, kwargs, v.all, v.failed, bound.names)
                h == handle_failures_async(d.on_failure, context)
            IN IF h.awaiting
               THEN Step("await_handler", TRUE, v.all, v.failed, h.calls, h.bodies, <<>>, 0, Pending)
               ELSE Step("done", TRUE, v.all, v.failed, h.calls, h.bodies, <<>>, 0,
                         IF h.out.kind = "raise" THEN h.out ELSE ReturnedNone)
       ELSE AsyncTail(d.func, args, kwargs, v, <<>>, 0)

\* typesentinel.decorator: async_wrapper of _create_async_wrapper, from the
\* first step of the coroutine to its first suspension or its end
async_wrapper(d, args, kwargs) ==
  IF BindFails(d.func.params, args, kwargs)
  THEN Step("done", FALSE, <<>>, <<>>, <<>>, 0, <<>>, 0, BindError)
  ELSE
    LET bound == BoundArguments(d.func.params, args, kwargs)
        v == validate_arguments(d.normalized_checks, bound)
    IN IF v.exc # None
       THEN Step("done", FALSE, <<>>, <<>>, <<>>, 0, <<>>, 0, Raised(v.exc, <<"value">>))
       ELSE IF v.failed # <<>>
       THEN LET context == TypeCheckContext(d.func, args, kwargs, v.all, v.failed, bound.names)
                h == handle_failures_async(d.on_failure, context)
            IN IF h.awaiting
               THEN Step("await_handler", TRUE, v.all, v.failed, h.calls, h.bodies, <<>>, 0, Pending)
               ELSE Step("done", TRUE, v.all, v.failed, h.calls, h.bodies, <<>>, 0,
                         IF h.out.kind = "raise" THEN h.out ELSE ReturnedNone)
       ELSE AsyncTail(d.func, args, kwargs, v, <<>>, 0)

\* type_checking.decorator: async_wrapper of _create_async_wrapper, from the
\* first step of the coroutine to its first suspension or its end
old_async_wrapper(d, args, kwargs) ==
  IF BindFails(d.func.params, args, kwargs)
  THEN Step("done", FALSE, <<>>, <<>>, <<>>, 0, <<>>, 0, BindError)
  ELSE
    LET bound == BoundArguments(d.func.params, args, kwargs)
        v == old_validate_arguments(d.normalized_checks, bound)
    IN IF v.exc # None
       THEN Step("done", FALSE, <<>>, <<>>, <<>>, 0, <<>>, 0, Raised(v.exc, <<"value">>))
       ELSE LET h == old_handle_failures_async(d.on_failure, v.failed)
            IN IF h.awaiting
               THEN Step("await_handler", TRUE, v.all, v.failed, h.calls, h.bodies, <<>>, 0, Pending)
               ELSE IF h.out.kind = "raise"
               THEN Step("done", TRUE, v.all, v.failed, h.calls, h.bodies, <<>>, 0, h.out)
               ELSE AsyncTail(d.func, args, kwargs, v, h.calls, h.bodies)

(***************************************************************************)
(* Inputs: the checks a decorator is built from, the arguments of a call.  *)
(***************************************************************************)
SeqsUpTo(S, n) == UNION {[1..k -> S] : k \in 0..n}

DistinctFirsts(pairs) ==
  \A i, j \in 1..Len(pairs) : i # j => pairs[i][1] # pairs[j][1]

ExplicitChecks == {
  TypeCheck("TypeCheck", IntKey(0), PlainType("int"), "positional", <<>>, None),
  TypeCheck("TypeCheck", IntKey(1), PlainType("int"), "positional", <<>>, None),
  TypeCheck("TypeCheck", IntKey(2), PlainType("str"), "positional", <<"third must be str">>, None),
  TypeCheck("TypeCheck", StrKey("b"), PlainType("str"), "keyword", <<>>, "bee")
}

Shorthands == {<<"a", PlainType("int")>>, <<"b", UnionType(<<"int", "str">>)>>}

\* <<explicit checks, keyword shorthand>> of at most MaxChecks checks together
CheckInputs ==
  {c \in SeqsUpTo(ExplicitChecks, MaxChecks) \X SeqsUpTo(Shorthands, Cardinality(Shorthands)) :
     Len(c[1]) + Len(c[2]) <= MaxChecks /\ DistinctFirsts(c[2])}

KwNames == {"a", "b"}

\* <<args, kwargs>> of at most MaxArgs arguments together; kwargs is a
\* sequence of <<name, value>> with distinct names
CallInputs ==
  {c \in SeqsUpTo(ArgValues, MaxArgs) \X SeqsUpTo(KwNames \X ArgValues, Cardinality(KwNames)) :
     Len(c[1]) + Len(c[2]) <= MaxArgs /\ DistinctFirsts(c[2])}

Modules == {"typesentinel", "type_checking"}

(***************************************************************************)
(* State.                                                                  *)
(***************************************************************************)
VARIABLES
  dec,             \* the decorator and the function it was applied to
  pc,              \* "start", "ready", "await_handler", "await_func" or "done"
  call,            \* the arguments of the call in flight
  validated,       \* _validate_arguments returned in this call
  all_results,     \* its results in this call
  failed_results,
  handler_calls,   \* handler invocations of this call
  handler_bodies,  \* handler bodies run in this call
  func_calls,      \* calls of the wrapped function in this call
  func_bodies,     \* bodies of the wrapped function run in this call
  outcome          \* what the caller of the wrapper got

\* the last operation applied to a TypeCheck outside a decorated call
\* (constructor, from_dict, validate, check normalization): its name, its
\* arguments, and the exception it raised or the value it returned
VARIABLE tc_call

\* one run of the publish script (unified_publish.py)
VARIABLES
  argv,            \* the options on the command line of the run
  world,           \* the files the run finds: the TOML config file, the package roots
  cli_args,        \* main's local args: the argparse namespace made from the command line
  config,          \* the PublishConfig built by load_config
  step,            \* where main is
  package_path,    \* main's local package_path
  token,           \* main's local token
  effects,         \* what the run has done outside itself so far
  exit_code        \* what main returned

\* the signature cache of the decorator and the functions it is applied to
VARIABLES
  signature_cache, \* self._signature_cache: for each function, whether it is a key, and its entry
  func_signature,  \* what inspect.signature gives for each function now
  inspections,     \* how many times inspect.signature was called on each function
  applied          \* the functions the decorator has been applied to

tcvars == <<tc_call>>
cachevars == <<signature_cache, func_signature, inspections, applied>>
pubvars == <<argv, world, cli_args, config, step, package_path, token, effects, exit_code>>

vars == <<dec, pc, call, validated, all_results, failed_results, handler_calls,
          handler_bodies, func_calls, func_bodies, outcome,
          type_check_default_handler, tcvars, pubvars, cachevars>>

\* what a decorated call leaves alone
elsewhere == <<tcvars, pubvars, cachevars>>

callvars == <<validated, all_results, failed_results, handler_calls,
              handler_bodies, func_calls, func_bodies, outcome>>

NoDecorator ==
  [module |-> None, form |-> None, func |-> CHOOSE f \in Funcs : f.name = "fn_ab",
   normalized_checks |-> <<>>, on_failure |-> "none", wrapper |-> None]

NoCall == FuncCall(<<>>, <<>>)

Idle ==
  /\ call = NoCall
  /\ validated = FALSE
  /\ all_results = <<>>
  /\ failed_results = <<>>
  /\ handler_calls = <<>>
  /\ handler_bodies = 0
  /\ func_calls = <<>>
  /\ func_bodies = 0
  /\ outcome = Pending

\* no TypeCheck operation has been applied
NoTcCall == [op |-> "none", args |-> <<>>, exc |-> None, msg |-> <<>>, ret |-> <<>>]

FuncNames == {f.name : f \in Funcs}
FuncNamed(n) == CHOOSE f \in Funcs : f.name = n

\* inspect.signature(func): the parameters of the function as they are now
\* (state "changed": the function was given other defaults since it was defined)
Signature(n, state) == [parameters |-> FuncNamed(n).params, state |-> state]

CacheEntry(cached, signature) == [cached |-> cached, signature |-> signature]
NotCached == CacheEntry(FALSE, Signature("fn_ab", "none"))

\* Faulty variant of the cache: the function is inspected at every
\* application and its entry replaced.
get_signature_always_inspects(cache, count, n, state) ==
  [cache |-> [cache EXCEPT ![n] = CacheEntry(TRUE, Signature(n, state))],
   inspections |-> [count EXCEPT ![n] = @ + 1],
   signature |-> Signature(n, state)]

\* TypeCheckDecorator._get_signature(func): [cache, inspections, signature]
get_signature(cache, count, n, state) ==
  IF ~cache[n].cached
  THEN [cache |-> [cache EXCEPT ![n] = CacheEntry(TRUE, Signature(n, state))],
        inspections |-> [count EXCEPT ![n] = @ + 1],
        signature |-> Signature(n, state)]
  ELSE [cache |-> cache, inspections |-> count, signature |-> cache[n].signature]

\* TypeCheckDecorator.__init__: self._signature_cache = {}
NothingInspected ==
  /\ signature_cache = [n \in FuncNames |-> NotCached]
  /\ func_signature = [n \in FuncNames |-> "defined"]
  /\ inspections = [n \in FuncNames |-> 0]
  /\ applied = {}

\* decorator(func): _create_wrapper asks _get_signature for the signature
ApplyTo(n) ==
  LET g == get_signature(signature_cache, inspections, n, func_signature[n])
  IN /\ signature_cache' = g.cache
     /\ inspections' = g.inspections
     /\ applied' = applied \cup {n}
     /\ UNCHANGED func_signature

\* the decorator modules are imported and nothing is decorated
NothingDecorated ==
  /\ dec = NoDecorator
  /\ pc = "start"
  /\ Idle
  /\ type_check_default_handler = ModuleDefaultHandler

\* the publish script is not running
NotPublishing ==
  /\ argv = None /\ world = None /\ cli_args = None /\ config = None
  /\ step = "off"
  /\ package_path = None /\ token = None
  /\ effects = None
  /\ exit_code = None

Init ==
  /\ NothingDecorated
  /\ NothingInspected
  /\ tc_call = NoTcCall
  /\ NotPublishing

\* the decorator after a call of its wrapper with these arguments
AfterCall(d, args, kwargs) ==
  IF BindFails(d.func.params, args, kwargs) THEN d
  ELSE [d EXCEPT !.normalized_checks =
          normalized_checks_after(d.module = "typesentinel", d.normalized_checks,
                                  BoundArguments(d.func.params, args, kwargs))]

\* the call is left as the wrapper operator says
Apply(st) ==
  /\ pc' = st.pc
  /\ validated' = st.validated
  /\ all_results' = st.all
  /\ failed_results' = st.failed
  /\ handler_calls' = st.hcalls
  /\ handler_bodies' = st.hbodies
  /\ func_calls' = st.fcalls
  /\ func_bodies' = st.fbodies
  /\ outcome' = st.out

(***************************************************************************)
(* Decoration.                                                             *)
(***************************************************************************)
\* TypeCheckDecorator(type_checks, kw_shorthand, on_failure) applied to func
TypeCheckDecorator(module, form, func, type_checks, kw_shorthand, on_failure) ==
  [module |-> module, form |-> form, func |-> func,
   normalized_checks |-> normalize_checks(type_checks, kw_shorthand).ret,
   on_failure |-> on_failure,
   wrapper |-> create_wrapper(func, on_failure)]

\* @type_check(checks, on_failure=..., **shorthand) applied to a function
DecorateWithParams ==
  /\ pc = "start"
  /\ \E module \in Modules, func \in Funcs, c \in CheckInputs, on_failure \in OnFailures :
        dec' = TypeCheckDecorator(module, "params", func, ListOf(c[1]), c[2], on_failure)
  /\ pc' = "ready"
  /\ ApplyTo(dec'.func.name)
  /\ UNCHANGED <<call, callvars, type_check_default_handler, tcvars, pubvars>>

\* bare @type_check applied to a function
DecorateBare ==
  /\ pc = "start"
  /\ \E module \in Modules, func \in Funcs :
        dec' = TypeCheckDecorator(module, "bare", func,
                                  ListOf(IF module = "typesentinel"
                                         THEN annotation_type_checks(func.params, 1)
                                         ELSE old_annotation_type_checks(func.params, 1)),
                                  <<>>, "none")
  /\ pc' = "ready"
  /\ ApplyTo(dec'.func.name)
  /\ UNCHANGED <<call, callvars, type_check_default_handler, tcvars, pubvars>>

\* type_check_default_handler is rebound between two calls (to the
\* replacement, or back to the function the module defines)
RebindDefaultHandler ==
  /\ pc = "ready"
  /\ type_check_default_handler' =
        IF type_check_default_handler = ModuleDefaultHandler
        THEN ReplacementHandler ELSE ModuleDefaultHandler
  /\ UNCHANGED <<dec, pc, call, callvars, elsewhere>>

(***************************************************************************)
(* Calls.                                                                  *)
(***************************************************************************)
\* typesentinel: a call of the synchronous wrapper
SyncCall ==
  /\ pc = "ready" /\ dec.module = "typesentinel" /\ dec.wrapper = "sync"
  /\ \E c \in CallInputs :
        /\ call' = FuncCall(c[1], c[2])
        /\ Apply(wrapper(dec, c[1], c[2]))
        /\ dec' = AfterCall(dec, c[1], c[2])
  /\ UNCHANGED <<type_check_default_handler, elsewhere>>

\* type_checking: a call of the synchronous wrapper
OldSyncCall ==
  /\ pc = "ready" /\ dec.module = "type_checking" /\ dec.wrapper = "sync"
  /\ \E c \in CallInputs :
        /\ call' = FuncCall(c[1], c[2])
        /\ Apply(old_wrapper(dec, c[1], c[2]))
        /\ dec' = AfterCall(dec, c[1], c[2])
  /\ UNCHANGED <<type_check_default_handler, elsewhere>>

\* typesentinel: await wrapper(*args, **kwargs) of the asynchronous wrapper,
\* up to the first suspension of the coroutine
AsyncCall ==
  /\ pc = "ready" /\ dec.module = "typesentinel" /\ dec.wrapper = "async"
  /\ \E c \in CallInputs :
        /\ call' = FuncCall(c[1], c[2])
        /\ Apply(async_wrapper(dec, c[1], c[2]))
        /\ dec' = AfterCall(dec, c[1], c[2])
  /\ UNCHANGED <<type_check_default_handler, elsewhere>>

\* type_checking: await wrapper(*args, **kwargs) of the asynchronous wrapper,
\* up to the first suspension of the coroutine
OldAsyncCall ==
  /\ pc = "ready" /\ dec.module = "type_checking" /\ dec.wrapper = "async"
  /\ \E c \in CallInputs :
        /\ call' = FuncCall(c[1], c[2])
        /\ Apply(old_async_wrapper(dec, c[1], c[2]))
        /\ dec' = AfterCall(dec, c[1], c[2])
  /\ UNCHANGED <<type_check_default_handler, elsewhere>>

\* typesentinel: the awaited handler finishes; the wrapper returns None or
\* lets the handler's exception through
AsyncHandlerDone ==
  /\ pc = "await_handler" /\ dec.module = "typesentinel"
  /\ handler_bodies' = handler_bodies + 1
  /\ outcome' = CustomHandlerBody(dec.on_failure)
  /\ pc' = "done"
  /\ UNCHANGED <<dec, call, validated, all_results, failed_results, handler_calls,
                 func_calls, func_bodies, type_check_default_handler, elsewhere>>

\* type_checking: the awaited handler finishes; the wrapper lets the
\* handler's exception through or goes on to call the wrapped function
OldAsyncHandlerDone ==
  /\ pc = "await_handler" /\ dec.module = "type_checking"
  /\ LET out == CustomHandlerBody(dec.on_failure)
         v == [all |-> all_results, failed |-> failed_results]
     IN IF out.kind = "raise"
        THEN Apply(Step("done", TRUE, all_results, failed_results, handler_calls,
                        handler_bodies + 1, <<>>, 0, out))
        ELSE Apply(AsyncTail(dec.func, call.args, call.kwargs, v, handler_calls, handler_bodies + 1))
  /\ UNCHANGED <<dec, call, type_check_default_handler, elsewhere>>

\* the awaited wrapped coroutine function finishes; the wrapper returns its result
AsyncFuncDone ==
  /\ pc = "await_func"
  /\ func_bodies' = func_bodies + 1
  /\ outcome' = Returned(FuncResult(dec.func, call.args, call.kwargs, TRUE))
  /\ pc' = "done"
  /\ UNCHANGED <<dec, call, validated, all_results, failed_results, handler_calls, handler_bodies,
                 func_calls, type_check_default_handler, elsewhere>>

\* the caller goes on; the wrapper can be called again
Return ==
  /\ pc = "done"
  /\ call' = NoCall
  /\ Apply(Step("ready", FALSE, <<>>, <<>>, <<>>, 0, <<>>, 0, Pending))
  /\ UNCHANGED <<dec, type_check_default_handler, elsewhere>>

Next ==
  \/ DecorateWithParams
  \/ DecorateBare
  \/ RebindDefaultHandler
  \/ SyncCall
  \/ OldSyncCall
  \/ AsyncCall
  \/ OldAsyncCall
  \/ AsyncHandlerDone
  \/ OldAsyncHandlerDone
  \/ AsyncFuncDone
  \/ Return

Spec == Init /\ [][Next]_vars

(***************************************************************************)
(* Operations on a TypeCheck outside a decorated call: the constructor,    *)
(* from_dict, validate, and the normalization of the checks of a           *)
(* decorator.  Each action applies one operation to inputs drawn from the  *)
(* sets below and records what its caller gets.                            *)
(***************************************************************************)
TcKeys == {IntKey(0), StrKey("age"), OtherKey("float", "1.5"), OtherKey("bool", "True")}

\* int, typing.Union[int, str], int | str, typing.Optional[int], and list[int],
\* which is neither a type nor a union
TcExpectedTypes ==
  {PlainType("int"), TypingUnion(<<"int", "str">>), UnionType(<<"int", "str">>),
   TypingUnion(<<"int", "NoneType">>),
   [form |-> "GenericAlias", members |-> <<"list[int]">>]}

ArgKinds == {"positional", "keyword"}
TcMessages == {<<>>, <<"Age must be integer">>}
TcNames == {None, "years"}
TcValues == ArgValues \cup {"True", None}

TcDicts ==
  {Dict(key, expected_type, arg_kind, message, name) :
     key \in {IntKey(0), StrKey("age"), AbsentKey},
     expected_type \in {PlainType("int"), UnionType(<<"int", "str">>)},
     arg_kind \in {AbsentKind, RawKind("ArgKind", "positional"), RawKind("ArgKind", "keyword"),
                   RawKind("str", "positional"), RawKind("str", "keyword"), RawKind("str", "bad"),
                   RawKind("int", "123"), RawKind("NoneType", "None")},
     message \in TcMessages, name \in TcNames}

\* entries of a type_checks list: TypeCheck objects, dicts (the last one does
\* not convert: a str key with the default kind), and an int
NormEntries ==
  {Entry("TypeCheck", TypeCheck("TypeCheck", IntKey(0), PlainType("int"), "positional", <<>>, None)),
   Entry("TypeCheck", TypeCheck("TypeCheck", StrKey("b"), PlainType("str"), "keyword", <<>>, "bee")),
   Entry("dict", Dict(StrKey("a"), PlainType("int"), RawKind("str", "keyword"), <<>>, None)),
   Entry("dict", Dict(IntKey(1), PlainType("str"), AbsentKind, <<"second must be str">>, None)),
   Entry("dict", Dict(StrKey("a"), PlainType("int"), AbsentKind, <<>>, None)),
   Entry("int", <<>>)}

\* <<type_checks, keyword shorthand>> of at most MaxChecks entries together
NormInputs ==
  LET args == {TypeChecksArg("list", items) : items \in SeqsUpTo(NormEntries, MaxChecks)}
                \cup {TypeChecksArg(e.is, <<e>>) : e \in {x \in NormEntries : x.is \in {"TypeCheck", "dict"}}}
                \cup {TypeChecksArg("None", <<>>), TypeChecksArg("int", <<>>),
                      TypeChecksArg("tuple", <<CHOOSE e \in NormEntries : e.is = "int">>)}
  IN {c \in args \X SeqsUpTo(Shorthands, Cardinality(Shorthands)) :
        Len(c[1].items) + Len(c[2]) <= MaxChecks /\ DistinctFirsts(c[2])}

decoratorvars == <<dec, pc, call, callvars, type_check_default_handler, cachevars>>

TcCall(op, args, r) == [op |-> op, args |-> args, exc |-> r.exc, msg |-> r.msg, ret |-> r.ret]

\* TypeCheck(key, expected_type, arg_kind, message, name)
TypeCheckNew ==
  /\ \E key \in TcKeys, expected_type \in TcExpectedTypes, arg_kind \in ArgKinds,
        message \in TcMessages, name \in TcNames :
        tc_call' = TcCall("TypeCheck",
                          Dict(key, expected_type, arg_kind, message, name),
                          TypeCheck_init("TypeCheck", key, expected_type, arg_kind, message, name))
  /\ UNCHANGED <<decoratorvars, pubvars>>

\* TypeCheck.from_dict(data), DefaultTypeCheckKwarg.from_dict(data)
FromDict ==
  /\ \E cls \in {"TypeCheck", "DefaultTypeCheckKwarg"}, data \in TcDicts :
        tc_call' = TcCall("from_dict", [cls |-> cls, data |-> data], from_dict(cls, data))
  /\ UNCHANGED <<decoratorvars, pubvars>>

\* tc.validate(value) for the TypeCheck tc just built
Validate ==
  /\ tc_call.op \in {"TypeCheck", "from_dict"} /\ tc_call.exc = None
  /\ \E value \in TcValues :
        tc_call' = TcCall("validate",
                          [given |-> IF tc_call.op = "TypeCheck" THEN tc_call.args ELSE tc_call.args.data,
                           tc |-> tc_call.ret, value |-> value],
                          validate_call(tc_call.ret, value))
  /\ UNCHANGED <<decoratorvars, pubvars>>

\* TypeCheckDecorator(type_checks, kw_shorthand): the normalization of the checks
NormalizeChecks ==
  /\ \E c \in NormInputs :
        tc_call' = TcCall("normalize", [type_checks |-> c[1], kw_shorthand |-> c[2]],
                          normalize_checks(c[1], c[2]))
  /\ UNCHANGED <<decoratorvars, pubvars>>

TypeCheckNext ==
  \/ TypeCheckNew
  \/ FromDict
  \/ Validate
  \/ NormalizeChecks

TypeCheckSpec == Init /\ [][TypeCheckNext]_vars

(***************************************************************************)
(* One decorator applied to several functions, again and again; between    *)
(* two applications a function may be given another signature.             *)
(***************************************************************************)
\* applications whose inspection count is followed
MaxInspections == 2

\* decorator(func)
ApplyDecorator ==
  /\ \E n \in FuncNames :
        /\ inspections[n] < MaxInspections
        /\ ApplyTo(n)
  /\ UNCHANGED <<dec, pc, call, callvars, type_check_default_handler, tcvars, pubvars>>

\* func.__defaults__ = ... (or func.__signature__ = ...): inspect.signature
\* gives something else from now on
ChangeSignature ==
  /\ \E n \in FuncNames :
        /\ func_signature[n] = "defined"
        /\ func_signature' = [func_signature EXCEPT ![n] = "changed"]
  /\ UNCHANGED <<signature_cache, inspections, applied>>
  /\ UNCHANGED <<dec, pc, call, callvars, type_check_default_handler, tcvars, pubvars>>

CacheNext ==
  \/ ApplyDecorator
  \/ ChangeSignature

CacheSpec == Init /\ [][CacheNext]_vars

(***************************************************************************)
(* The publish script (unified_publish.py): one run of main, step by step. *)
(* The command line and the files are fixed when the run starts; what the  *)
(* user answers and what the environment, the keyring and the build and    *)
(* upload tools give back is drawn when the run asks for it.               *)
(***************************************************************************)
\* pathlib.Path: the sequence of its parts; Path(".") has none
Path(parts) == parts
DotPath == Path(<<>>)
\* Path.resolve(): the path made absolute from the working directory
resolve(p) == <<"/", "cwd">> \o p
\* bool(path): a Path defines neither __bool__ nor __len__, so every Path,
\* Path(".") included, is true
PathIsTrue(p) == TRUE
\* bool(s) of a str or None
IsTrue(s) == s \notin {None, ""}

\* the options of the command line
PathOption(passed, value) == [passed |-> passed, value |-> value]
Argvs ==
  [version : BOOLEAN,
   path : {PathOption(FALSE, DotPath), PathOption(TRUE, DotPath), PathOption(TRUE, Path(<<"other">>))},
   target : {"", "--test", "--prod"},
   no_confirm : BOOLEAN, no_clean : BOOLEAN, dry_run : BOOLEAN, skip_build : BOOLEAN]

\* parse_args: the namespace argparse makes of the command line
parse_args(av) ==
  [path |-> IF av.path.passed THEN av.path.value ELSE Path(<<>>),
   test |-> av.target = "--test",
   prod |-> av.target = "--prod",
   no_confirm |-> av.no_confirm,
   no_clean |-> av.no_clean,
   dry_run |-> av.dry_run,
   skip_build |-> av.skip_build,
   version |-> av.version]

\* the TOML file named by --config: whether it exists, which keys it sets
\* (has) and their values
Toml(exists, has, target, confirm, clean, path, test, prod) ==
  [exists |-> exists, has |-> has, target |-> target, confirm |-> confirm, clean |-> clean,
   path |-> path, test |-> test, prod |-> prod]
NoToml == Toml(FALSE, {}, "test", TRUE, TRUE, DotPath, None, None)
Tomls ==
  { NoToml,
    Toml(TRUE, {}, "test", TRUE, TRUE, DotPath, None, None),
    Toml(TRUE, {"package.path", "tokens.test"}, "test", TRUE, TRUE, Path(<<"pkg">>), "", None),
    Toml(TRUE, {"publish.target", "publish.confirm", "package.path", "tokens.prod"},
         "prod", FALSE, TRUE, Path(<<"pkg">>), None, "cfg-prod-token"),
    Toml(TRUE, {"publish.target", "publish.clean", "tokens.test"},
         "staging", TRUE, FALSE, DotPath, "cfg-test-token", None) }

\* table.get(key, default)
TomlGet(toml, key, value, default) == IF key \in toml.has THEN value ELSE default

\* PublishConfig()
PublishConfig ==
  [target |-> "test", confirm |-> TRUE, clean |-> TRUE, dry_run |-> FALSE,
   package_path |-> Path(<<>>), test_token |-> None, prod_token |-> None]

\* load_config(args), the config file being toml
load_config(a, toml) ==
  LET c0 == PublishConfig
      c1 == IF toml.exists
            THEN [c0 EXCEPT !.target = TomlGet(toml, "publish.target", toml.target, c0.target),
                            !.confirm = TomlGet(toml, "publish.confirm", toml.confirm, c0.confirm),
                            !.clean = TomlGet(toml, "publish.clean", toml.clean, c0.clean),
                            !.package_path = IF "package.path" \in toml.has
                                             THEN Path(toml.path) ELSE c0.package_path,
                            !.test_token = TomlGet(toml, "tokens.test", toml.test, None),
                            !.prod_token = TomlGet(toml, "tokens.prod", toml.prod, None)]
            ELSE c0
      c2 == IF PathIsTrue(a.path) THEN [c1 EXCEPT !.package_path = a.path] ELSE c1
      c3 == IF a.test THEN [c2 EXCEPT !.target = "test"]
            ELSE IF a.prod THEN [c2 EXCEPT !.target = "prod"] ELSE c2
      c4 == IF a.no_confirm THEN [c3 EXCEPT !.confirm = FALSE] ELSE c3
      c5 == IF a.no_clean THEN [c4 EXCEPT !.clean = FALSE] ELSE c4
  IN IF a.dry_run THEN [c5 EXCEPT !.dry_run = TRUE] ELSE c5

\* validate_package(package_path): pyproject.toml is required
validate_package(path, roots) == path \in roots

\* what a run does outside itself, in order
Effect(what, detail) == [what |-> what, detail |-> detail]

\* f"{full_env.upper()}_TOKEN"
EnvVar(env) ==
  CASE env = "test" -> "TESTPYPI_TOKEN"
    [] env = "prod" -> "PYPI_TOKEN"
    [] OTHER -> "STAGING_TOKEN"

\* env_map.get(env, env)
FullEnv(env) ==
  CASE env = "test" -> "testpypi"
    [] env = "prod" -> "pypi"
    [] OTHER -> env

\* os.environ: the value of each token variable (None when it is not set)
Environ(test, prod, other) ==
  [TESTPYPI_TOKEN |-> test, PYPI_TOKEN |-> prod, STAGING_TOKEN |-> other]
Environs == { Environ(None, None, None), Environ("", "", ""),
              Environ("env-test-token", None, None),
              Environ("env-test-token", "env-prod-token", "env-staging-token") }
\* the keyring module: absent; raising from get_password; holding no
\* password, an empty one, or one
Keyring(installed, raises, password) ==
  [installed |-> installed, raises |-> raises, password |-> password]
Keyrings == { Keyring(FALSE, FALSE, None), Keyring(TRUE, TRUE, None), Keyring(TRUE, FALSE, None),
              Keyring(TRUE, FALSE, ""), Keyring(TRUE, FALSE, "keyring-token") }

\* what the run finds around it: the config file, the directories that hold
\* a pyproject.toml, the environment variables and the keyring
Worlds ==
  [toml : Tomls,
   roots : { {}, {resolve(DotPath), resolve(Path(<<"pkg">>)), resolve(Path(<<"other">>))} },
   environ : Environs,
   ring : Keyrings]

\* get_token_from_keyring(env): [token, effects]
get_token_from_keyring(env, ring) ==
  IF ~ring.installed THEN [token |-> None, effects |-> <<>>]
  ELSE [token |-> IF ring.raises THEN None ELSE ring.password,
        effects |-> <<Effect("keyring.get_password", <<"kx-publish-", env>>)>>]

\* Faulty variant of the lookup: the config object is asked before the
\* environment.
get_token_config_first(env, cfg, environ, ring) ==
  LET env_var == EnvVar(env)
      looked == <<Effect("os.environ.get", <<env_var>>)>>
      from_env == environ[env_var]
      kr == get_token_from_keyring(FullEnv(env), ring)
  IN IF env = "test" /\ IsTrue(cfg.test_token) THEN [token |-> cfg.test_token, effects |-> looked]
     ELSE IF env = "prod" /\ IsTrue(cfg.prod_token) THEN [token |-> cfg.prod_token, effects |-> looked]
     ELSE IF IsTrue(from_env) THEN [token |-> from_env, effects |-> looked]
     ELSE IF IsTrue(kr.token) THEN [token |-> kr.token, effects |-> looked \o kr.effects]
     ELSE [token |-> None, effects |-> looked \o kr.effects]

\* get_token(env, config): [token, effects]
get_token(env, cfg, environ, ring) ==
  LET env_var == EnvVar(env)
      looked == <<Effect("os.environ.get", <<env_var>>)>>
      from_env == environ[env_var]
      kr == get_token_from_keyring(FullEnv(env), ring)
  IN IF IsTrue(from_env) THEN [token |-> from_env, effects |-> looked]
     ELSE IF env = "test" /\ IsTrue(cfg.test_token) THEN [token |-> cfg.test_token, effects |-> looked]
     ELSE IF env = "prod" /\ IsTrue(cfg.prod_token) THEN [token |-> cfg.prod_token, effects |-> looked]
     ELSE IF IsTrue(kr.token) THEN [token |-> kr.token, effects |-> looked \o kr.effects]
     ELSE [token |-> None, effects |-> looked \o kr.effects]

\* the build module: absent, failing, or building
Builds == {"not installed", "fails", "builds"}
\* build_package(package_path): [ok, effects]
build_package(path, build) ==
  LET version == Effect("subprocess.run", <<"-m", "build", "--version">>)
      run == Effect("subprocess.run", <<"-m", "build">>)
  IN IF build = "not installed" THEN [ok |-> FALSE, effects |-> <<version>>]
     ELSE [ok |-> build = "builds", effects |-> <<version, run>>]

\* dist/ under the package root when the upload starts
Dists == {"absent", "empty", "artifacts"}
\* twine: whether it is installed, and the return code of `twine upload`
Twines == [installed : BOOLEAN, returncode : {0, 1}]

RepoUrl(target) ==
  CASE target = "test" -> "https://test.pypi.org/legacy/"
    [] target = "prod" -> "https://upload.pypi.org/legacy/"
    [] OTHER -> None

UploadResult(success, package_name, eff) ==
  [success |-> success, package_name |-> package_name, effects |-> eff]

\* Faulty variant of the upload: dry_run is not looked at.
upload_package_ignores_dry_run(path, tok, target, dry_run, dist, twine) ==
  LET version == Effect("subprocess.run", <<"-m", "twine", "--version">>)
      upload == Effect("subprocess.run",
                       <<"-m", "twine", "upload", "--repository-url", RepoUrl(target),
                         "--username", "__token__", "--password", tok>>)
  IN IF ~IsTrue(RepoUrl(target)) THEN UploadResult(FALSE, None, <<>>)
     ELSE IF dist = "absent" THEN UploadResult(FALSE, None, <<>>)
     ELSE IF dist = "empty" THEN UploadResult(FALSE, None, <<>>)
     ELSE IF ~twine.installed THEN UploadResult(FALSE, None, <<version>>)
     ELSE IF twine.returncode # 0 THEN UploadResult(FALSE, None, <<version, upload>>)
     ELSE UploadResult(TRUE, "typesentinel", <<version, upload>>)

\* upload_package(package_path, token, target, dry_run): [success, package_name, effects]
upload_package(path, tok, target, dry_run, dist, twine) ==
  LET version == Effect("subprocess.run", <<"-m", "twine", "--version">>)
      upload == Effect("subprocess.run",
                       <<"-m", "twine", "upload", "--repository-url", RepoUrl(target),
                         "--username", "__token__", "--password", tok>>)
  IN IF ~IsTrue(RepoUrl(target)) THEN UploadResult(FALSE, None, <<>>)
     ELSE IF dist = "absent" THEN UploadResult(FALSE, None, <<>>)
     ELSE IF dist = "empty" THEN UploadResult(FALSE, None, <<>>)
     ELSE IF dry_run THEN UploadResult(TRUE, "typesentinel", <<>>)
     ELSE IF ~twine.installed THEN UploadResult(FALSE, None, <<version>>)
     ELSE IF twine.returncode # 0 THEN UploadResult(FALSE, None, <<version, upload>>)
     ELSE UploadResult(TRUE, "typesentinel", <<version, upload>>)

\* what the user types at "Proceed? (yes/no): "
Responses == {"yes", "y", "no", ""}

\* the script is started: the command line and the files are what they are
PublishInit ==
  /\ NothingDecorated
  /\ NothingInspected
  /\ tc_call = NoTcCall
  /\ argv \in Argvs
  /\ world \in Worlds
  /\ cli_args = None /\ config = None
  /\ step = "parse_args"
  /\ package_path = None /\ token = None
  /\ effects = <<>>
  /\ exit_code = None

\* main returns code
MainReturns(code) ==
  /\ step' = "returned"
  /\ exit_code' = code

\* main: args = parse_args(); --version prints the version and returns 0
ParseArgs ==
  /\ step = "parse_args"
  /\ cli_args' = parse_args(argv)
  /\ IF argv.version THEN MainReturns(0)
     ELSE step' = "load_config" /\ UNCHANGED exit_code
  /\ UNCHANGED <<argv, world, config, package_path, token, effects, decoratorvars, tcvars>>

\* main: config = load_config(args); package_path = config.package_path.resolve()
LoadConfig ==
  /\ step = "load_config"
  /\ config' = load_config(cli_args, world.toml)
  /\ package_path' = resolve(config'.package_path)
  /\ step' = "validate_package"
  /\ UNCHANGED <<argv, world, cli_args, token, effects, exit_code, decoratorvars, tcvars>>

\* main: validate_package and detect_version
ValidatePackage ==
  /\ step = "validate_package"
  /\ IF validate_package(package_path, world.roots)
     THEN step' = "confirm" /\ UNCHANGED exit_code
     ELSE MainReturns(1)
  /\ UNCHANGED <<argv, world, cli_args, config, package_path, token, effects, decoratorvars, tcvars>>

\* main: the confirmation prompt
Confirm ==
  /\ step = "confirm"
  /\ IF config.confirm /\ ~config.dry_run
     THEN \E response \in Responses :
            /\ effects' = Append(effects, Effect("input", <<"Proceed? (yes/no): ">>))
            /\ IF response \notin {"yes", "y"} THEN MainReturns(0)
               ELSE step' = "get_token" /\ UNCHANGED exit_code
     ELSE step' = "get_token" /\ UNCHANGED <<effects, exit_code>>
  /\ UNCHANGED <<argv, world, cli_args, config, package_path, token, decoratorvars, tcvars>>

\* main: the API token
GetToken ==
  /\ step = "get_token"
  /\ IF ~config.dry_run
     THEN LET t == get_token(config.target, config, world.environ, world.ring)
          IN /\ token' = t.token
             /\ effects' = effects \o t.effects
             /\ IF ~IsTrue(t.token) THEN MainReturns(1)
                ELSE step' = "clean" /\ UNCHANGED exit_code
     ELSE /\ token' = "DRY_RUN_TOKEN"
          /\ step' = "clean"
          /\ UNCHANGED <<effects, exit_code>>
  /\ UNCHANGED <<argv, world, cli_args, config, package_path, decoratorvars, tcvars>>

\* main: clean_build_artifacts unless --no-clean or --skip-build
Clean ==
  /\ step = "clean"
  /\ effects' = IF config.clean /\ ~cli_args.skip_build
                THEN Append(effects, Effect("shutil.rmtree", <<"dist", "build">>))
                ELSE effects
  /\ step' = "build"
  /\ UNCHANGED <<argv, world, cli_args, config, package_path, token, exit_code, decoratorvars, tcvars>>

\* main: build_package unless --skip-build
Build ==
  /\ step = "build"
  /\ IF ~cli_args.skip_build
     THEN \E build \in Builds :
            LET b == build_package(package_path, build)
            IN /\ effects' = effects \o b.effects
               /\ IF ~b.ok THEN MainReturns(1)
                  ELSE step' = "upload" /\ UNCHANGED exit_code
     ELSE step' = "upload" /\ UNCHANGED <<effects, exit_code>>
  /\ UNCHANGED <<argv, world, cli_args, config, package_path, token, decoratorvars, tcvars>>

\* main: upload_package(package_path, token, config.target, config.dry_run)
Upload ==
  /\ step = "upload"
  /\ \E dist \in Dists, twine \in Twines :
        LET u == upload_package(package_path, token, config.target, config.dry_run, dist, twine)
        IN /\ effects' = effects \o u.effects
           /\ MainReturns(IF u.success THEN 0 ELSE 1)
  /\ UNCHANGED <<argv, world, cli_args, config, package_path, token, decoratorvars, tcvars>>

PublishNext ==
  \/ ParseArgs
  \/ LoadConfig
  \/ ValidatePackage
  \/ Confirm
  \/ GetToken
  \/ Clean
  \/ Build
  \/ Upload

PublishSpec == PublishInit /\ [][PublishNext]_vars

(***************************************************************************)
(* Vocabulary of the properties, stated from the call and the declared     *)
(* checks rather than from what the wrapper recorded.                      *)
(***************************************************************************)
Params == dec.func.params
Checks == dec.normalized_checks
IsNew == dec.module = "typesentinel"
IsOld == dec.module = "type_checking"

CallBinds == ~BindFails(Params, call.args, call.kwargs)
Bound == BoundArguments(Params, call.args, call.kwargs)

IsParamName(n) == \E i \in 1..Len(Params) : Params[i].name = n

\* a check that is passed over: a DefaultTypeCheckKwarg whose key names no bound argument
Skipped(tc) == tc.cls = "DefaultTypeCheckKwarg" /\ ~IsParamName(tc.key.s)

EvaluatedChecks == SelectSeq(Checks, LAMBDA tc : ~Skipped(tc))

\* the check refers to an argument of the call
Resolvable(tc) ==
  IF tc.arg_kind = "positional"
  THEN 0 - Len(Params) <= tc.key.i /\ tc.key.i < Len(Params)
  ELSE IsParamName(tc.key.s)

\* the value bound to the parameter a resolvable check refers to
ValueFor(tc) ==
  IF tc.arg_kind = "positional"
  THEN Bound.values[IF tc.key.i >= 0 THEN tc.key.i + 1 ELSE Len(Params) + tc.key.i + 1]
  ELSE BoundValue(Bound, tc.key.s)

CheckPasses(tc) == Resolvable(tc) /\ IsInstance(ValueFor(tc), tc.expected_type.members)

AnyCheckFails ==
  CallBinds /\ \E i \in 1..Len(EvaluatedChecks) : ~CheckPasses(EvaluatedChecks[i])

AllChecksPass ==
  CallBinds /\ \A i \in 1..Len(EvaluatedChecks) : CheckPasses(EvaluatedChecks[i])

FirstFailing ==
  CHOOSE i \in 1..Len(EvaluatedChecks) :
    /\ ~CheckPasses(EvaluatedChecks[i])
    /\ \A j \in 1..(i - 1) : CheckPasses(EvaluatedChecks[j])

\* the keys of a sequence of checks or of results
CheckKeys(cs) == [i \in 1..Len(cs) |-> cs[i].key]
ResultKeys(rs) == [i \in 1..Len(rs) |-> rs[i].type_check.key]

\* the parameter at index i got no argument in the call
Omitted(i) ==
  /\ ~(i <= NumPositional(Params) /\ i <= Len(call.args))
  /\ KwIndex(call.kwargs, Params[i].name) = 0

\* TypeCheckContext.passed_results
passed_results(context) == SelectSeq(context.all_results, LAMBDA r : r.passed)

(***************************************************************************)
(* Properties.                                                             *)
(***************************************************************************)

\* C1: typesentinel.decorator -- in every call in which at least one check
\* fails and the failure handler returns normally, the handler is invoked
\* exactly once, the wrapped function is never called and the wrapper returns
\* None; when on_failure was supplied it is the handler invoked, not the
\* default one.  While an awaited handler is still running the wrapped
\* function has not been called either.
C1_FailingCallRunsHandlerOnce ==
  /\ (IsNew /\ pc = "done" /\ AnyCheckFails /\ outcome.kind = "return")
       => /\ Len(handler_calls) = 1
          /\ handler_bodies = 1
          /\ func_calls = <<>> /\ func_bodies = 0
          /\ outcome = ReturnedNone
          /\ (dec.on_failure # "none" => handler_calls[1].who = "custom")
  /\ (IsNew /\ pc = "await_handler")
       => Len(handler_calls) = 1 /\ handler_calls[1].who = "custom" /\ func_calls = <<>>

C1_Witness ==
  /\ IsNew /\ pc = "done" /\ AnyCheckFails
  /\ dec.on_failure = "sync_ok"
  /\ outcome = ReturnedNone
  /\ Len(handler_calls) = 1 /\ handler_calls[1].who = "custom"
  /\ func_calls = <<>>

\* C2: typesentinel.decorator -- in every call whose arguments bind to the
\* signature and in which every evaluated check passes, no failure handler is
\* invoked, the wrapped function is called exactly once with exactly the
\* positional and keyword arguments of the caller, and the wrapper returns
\* the result of that call.
C2_PassingCallForwards ==
  /\ (IsNew /\ pc = "done" /\ AllChecksPass)
       => /\ handler_calls = <<>> /\ handler_bodies = 0
          /\ func_calls = <<FuncCall(call.args, call.kwargs)>>
          /\ func_bodies = 1
          /\ outcome = Returned(FuncResult(dec.func, call.args, call.kwargs, TRUE))
  /\ (IsNew /\ pc = "await_func")
       => /\ AllChecksPass /\ handler_calls = <<>>
          /\ func_calls = <<FuncCall(call.args, call.kwargs)>>

C2_Witness ==
  /\ IsNew /\ pc = "done" /\ AllChecksPass
  /\ Len(EvaluatedChecks) = 2
  /\ Len(call.args) = 1 /\ Len(call.kwargs) = 1
  /\ outcome = Returned(FuncResult(dec.func, call.args, call.kwargs, TRUE))

C4_OldDefaultMessage ==
  (/\ IsOld /\ pc = "done" /\ dec.on_failure = "none"
   /\ type_check_default_handler = ModuleDefaultHandler
   /\ (dec.form = "bare" \/ \A i \in 1..Len(Checks) : Checks[i].cls = "DefaultTypeCheckKwarg")
   /\ AnyCheckFails /\ Resolvable(EvaluatedChecks[FirstFailing]))
    => LET tc == EvaluatedChecks[FirstFailing]
       IN outcome = Raised("TypeError",
                           <<"Invalid type for argument '", tc.name, "': expected ">>
                             \o get_type_name(tc.expected_type)
                             \o <<", got ", TypeOf(ValueFor(tc))>>)

C6_ContextConsistent ==
  \A k \in 1..Len(handler_calls) :
    IsNew =>
      LET context == handler_calls[k].context
          all == context.all_results
      IN /\ ResultKeys(all) = CheckKeys(EvaluatedChecks)
         /\ \A j \in 1..Len(all) : all[j].passed = CheckPasses(EvaluatedChecks[j])
         /\ context.failed_results = SelectSeq(all, LAMBDA r : ~r.passed)
         /\ context.failed_results # <<>>
         /\ passed_results(context) = SelectSeq(all, LAMBDA r : r.passed)
         /\ Len(context.failed_results) + Len(passed_results(context)) = Len(all)
         /\ context.args = call.args
         /\ context.kwargs = call.kwargs

C6_Witness ==
  /\ IsNew /\ Len(handler_calls) = 1
  /\ Len(handler_calls[1].context.failed_results) = 1
  /\ Len(passed_results(handler_calls[1].context)) = 1
  /\ handler_calls[1].context.all_results[1].passed
  /\ handler_calls[1].context.args # <<>>
  /\ handler_calls[1].context.kwargs # <<>>

\* C7: typesentinel.decorator -- a DefaultTypeCheckKwarg skips validation when
\* its keyword argument is missing from the call: when a call omits an
\* argument whose parameter has a default value, no TypeCheckResult is
\* produced for that parameter's check, and if every other check passes the
\* call proceeds to the wrapped function whatever the type of the default.
C7_OmittedDefaultNotValidated ==
  (IsNew /\ pc = "done" /\ CallBinds)
    => \A i \in 1..Len(Params) :
         (/\ Params[i].default # None
          /\ Omitted(i)
          /\ \E c \in 1..Len(Checks) :
               Checks[c].cls = "DefaultTypeCheckKwarg" /\ Checks[c].key.s = Params[i].name)
           => /\ \A j \in 1..Len(all_results) :
                   ~(all_results[j].type_check.cls = "DefaultTypeCheckKwarg"
                     /\ all_results[j].type_check.key.s = Params[i].name)
              /\ (\A c \in 1..Len(EvaluatedChecks) :
                    EvaluatedChecks[c].key.s # Params[i].name => CheckPasses(EvaluatedChecks[c]))
                   => func_calls = <<FuncCall(call.args, call.kwargs)>>

\* C8 as stated: the wrapper is a coroutine function exactly when the wrapped
\* function is a coroutine function, whatever the on_failure handler.
C8_WrapperFollowsFunctionOnly ==
  pc # "start" => (dec.wrapper = "async" <=> dec.func.is_async)

\* C8 (amended): the wrapper is a coroutine function exactly when the wrapped
\* function is a coroutine function or a supplied on_failure handler is one;
\* with no handler or a plain handler it follows the wrapped function.
C8_WrapperFollowsFunctionOrHandler ==
  pc # "start" =>
    /\ dec.wrapper \in {"sync", "async"}
    /\ dec.wrapper = "async" <=> (dec.func.is_async \/ dec.on_failure \in {"async_ok", "async_raise"})
    /\ pc \in {"await_handler", "await_func"} => dec.wrapper = "async"

C8_Witness ==
  /\ pc = "done" /\ ~dec.func.is_async /\ dec.on_failure = "async_ok"
  /\ dec.wrapper = "async"
  /\ handler_bodies = 1

\* C9: both decorator modules -- for a decorated async function with no
\* on_failure, awaiting the wrapper with arguments that pass every check
\* awaits the wrapped coroutine function once and yields its result, and
\* awaiting it with an argument that fails a check raises TypeError out of
\* the await without the body of the wrapped function ever being started.
C9_AsyncDefaultHandler ==
  (/\ pc = "done" /\ dec.func.is_async /\ dec.on_failure = "none" /\ CallBinds
   /\ type_check_default_handler = ModuleDefaultHandler)
    => /\ AllChecksPass
            => /\ func_calls = <<FuncCall(call.args, call.kwargs)>>
               /\ func_bodies = 1
               /\ outcome = Returned(FuncResult(dec.func, call.args, call.kwargs, TRUE))
       /\ (\E i \in 1..Len(EvaluatedChecks) :
             Resolvable(EvaluatedChecks[i]) /\ ~CheckPasses(EvaluatedChecks[i]))
            => /\ outcome.kind = "raise" /\ outcome.exc = "TypeError"
               /\ func_calls = <<>> /\ func_bodies = 0

\* C10: both decorator modules -- in the async wrapper a failure handler that
\* is a coroutine function is awaited to completion before the awaited call
\* of the wrapper finishes: its body has run once the call is done, an
\* exception raised in it comes out of the await unchanged, and a handler
\* that is not a coroutine function is called directly and never awaited.
C10_AsyncHandlerAwaited ==
  /\ (dec.wrapper = "async" /\ pc = "done" /\ handler_calls # <<>>)
       => /\ Len(handler_calls) = 1 /\ handler_bodies = 1
          /\ dec.on_failure = "async_raise" => outcome = Raised("TypeError", <<"async fail">>)
          /\ dec.on_failure = "sync_raise" => outcome = Raised("ValueError", <<"sync fail">>)
  /\ (dec.wrapper = "async" /\ pc = "done" /\ AnyCheckFails /\ validated)
       => handler_calls # <<>>
  /\ pc = "await_handler"
       => /\ dec.on_failure \in {"async_ok", "async_raise"}
          /\ Len(handler_calls) = 1 /\ handler_bodies = 0
          /\ outcome = Pending

C10_Witness ==
  /\ dec.wrapper = "async" /\ pc = "done" /\ dec.on_failure = "async_raise"
  /\ dec.func.is_async
  /\ handler_bodies = 1
  /\ outcome = Raised("TypeError", <<"async fail">>)


\* C11: both decorator modules, both wrappers -- when the arguments of a call
\* do not bind to the signature of the wrapped function (a required argument
\* is missing, there is an argument too many, a keyword names no parameter),
\* the call raises the TypeError of the binding before any check is
\* evaluated: no TypeCheckResult is produced, no failure handler (default,
\* rebound or custom) is invoked, and the wrapped function is not called.  A
\* call that does not bind is never suspended on a handler or on the function.
C11_BindErrorBeforeChecks ==
  (pc \in {"done", "await_handler", "await_func"} /\ ~CallBinds)
    => /\ pc = "done"
       /\ outcome = BindError
       /\ ~validated
       /\ all_results = <<>> /\ failed_results = <<>>
       /\ handler_calls = <<>> /\ handler_bodies = 0
       /\ func_calls = <<>> /\ func_bodies = 0

\* a call with no argument of a function with required parameters, under a
\* decorator with checks and a custom handler
C11_Witness ==
  /\ pc = "done" /\ ~CallBinds
  /\ call.args = <<>> /\ call.kwargs = <<>>
  /\ dec.func.name = "fn_ab"
  /\ Len(Checks) = 2 /\ dec.on_failure = "async_ok"
  /\ outcome.kind = "raise" /\ outcome.exc = "TypeError"
  /\ handler_calls = <<>> /\ func_calls = <<>>

\* the parameters that carry an annotation and are not *args / **kwargs, as
\* indexes into the signature, in signature order
AnnotatedParams(params) ==
  SelectSeq([i \in 1..Len(params) |-> i],
            LAMBDA i : /\ params[i].annotation # NoAnnotation
                       /\ params[i].kind \notin {"VAR_POSITIONAL", "VAR_KEYWORD"})

\* class, kind, key and expected type of a check
CheckShape(tc) ==
  [cls |-> tc.cls, arg_kind |-> tc.arg_kind, key |-> tc.key, expected_type |-> tc.expected_type]

\* C12: both decorator modules -- bare @type_check derives one check per
\* annotated parameter and none for an unannotated one, in signature order: a
\* POSITIONAL_OR_KEYWORD or KEYWORD_ONLY parameter without default gives a
\* keyword TypeCheck keyed by its name, the same kinds with a default give a
\* DefaultTypeCheckKwarg keyed by its name, a POSITIONAL_ONLY parameter gives
\* a positional TypeCheck keyed by its index in the signature, *args and
\* **kwargs give no check; and a call that binds fails exactly when the value
\* of some argument passed for such a parameter is not an instance of the
\* annotation.
C12_BareAnnotationChecks ==
  dec.form = "bare" =>
    LET idx == AnnotatedParams(Params)
    IN /\ Len(Checks) = Len(idx)
       /\ \A k \in 1..Len(idx) :
            LET p == Params[idx[k]]
            IN CheckShape(Checks[k]) =
                 IF p.kind = "POSITIONAL_ONLY"
                 THEN [cls |-> "TypeCheck", arg_kind |-> "positional",
                       key |-> IntKey(idx[k] - 1), expected_type |-> p.annotation]
                 ELSE [cls |-> IF p.default = None THEN "TypeCheck" ELSE "DefaultTypeCheckKwarg",
                       arg_kind |-> "keyword",
                       key |-> StrKey(p.name), expected_type |-> p.annotation]
       /\ (pc = "done" /\ CallBinds)
            => (outcome.kind = "raise"
                  <=> \E k \in 1..Len(idx) :
                        /\ ~Omitted(idx[k])
                        /\ ~IsInstance(Bound.values[idx[k]], Params[idx[k]].annotation.members))

\* what the entry of a type_checks argument becomes: itself for a TypeCheck,
\* TypeCheck.from_dict of it for a dict
Converted(e) ==
  IF e.is = "TypeCheck" THEN Result(None, <<>>, e.obj) ELSE from_dict("TypeCheck", e.obj)

\* the entry is a TypeCheck or a dict
Accepted(e) == e.is \in {"TypeCheck", "dict"}

C14_NonMatchingKeyRaisesValueError ==
  /\ (tc_call.op = "TypeCheck" /\ tc_call.args.arg_kind = "positional"
      /\ "int" \notin Mro(tc_call.args.key.kt))
       => /\ tc_call.exc = "ValueError"
          /\ tc_call.msg = <<"positional", " arguments require a ", "int", " key, got ",
                             tc_call.args.key.kt>>
  /\ (tc_call.op = "TypeCheck" /\ tc_call.args.arg_kind = "keyword"
      /\ "str" \notin Mro(tc_call.args.key.kt))
       => /\ tc_call.exc = "ValueError"
          /\ tc_call.msg = <<"keyword", " arguments require a ", "str", " key, got ",
                             tc_call.args.key.kt>>
  /\ (tc_call.op \in {"TypeCheck", "from_dict"} /\ tc_call.exc = None)
       => /\ tc_call.ret.arg_kind = "positional" => "int" \in Mro(tc_call.ret.key.kt)
          /\ tc_call.ret.arg_kind = "keyword" => "str" \in Mro(tc_call.ret.key.kt)

\* C14 (amended): for a key that is a str or an int and an expected type that
\* is a type or a union, a POSITIONAL check with a str key raises ValueError
\* "positional arguments require a int key, got str" and a KEYWORD check with
\* an int key raises ValueError "keyword arguments require a str key, got
\* <type>"; a key that is neither a str nor an int raises TypeError "key must
\* be str or int" whatever the kind; no TypeCheck with a mismatched key and
\* kind exists.
C14_KeyMustMatchKind ==
  /\ (tc_call.op = "TypeCheck" /\ Mro(tc_call.args.key.kt) \cap {"str", "int"} = {})
       => tc_call.exc = "TypeError" /\ tc_call.msg = <<"key must be str or int">>
  /\ (tc_call.op = "TypeCheck" /\ tc_call.args.arg_kind = "positional"
      /\ "str" \in Mro(tc_call.args.key.kt)
      /\ tc_call.args.expected_type.form \in {"type", "Union", "UnionType"})
       => /\ tc_call.exc = "ValueError"
          /\ tc_call.msg = <<"positional", " arguments require a ", "int", " key, got ", "str">>
  /\ (tc_call.op = "TypeCheck" /\ tc_call.args.arg_kind = "keyword"
      /\ "int" \in Mro(tc_call.args.key.kt)
      /\ tc_call.args.expected_type.form \in {"type", "Union", "UnionType"})
       => /\ tc_call.exc = "ValueError"
          /\ tc_call.msg = <<"keyword", " arguments require a ", "str", " key, got ",
                             tc_call.args.key.kt>>
  /\ (tc_call.op \in {"TypeCheck", "from_dict"} /\ tc_call.exc = None)
       => /\ tc_call.ret.arg_kind = "positional" => "int" \in Mro(tc_call.ret.key.kt)
          /\ tc_call.ret.arg_kind = "keyword" => "str" \in Mro(tc_call.ret.key.kt)

\* a keyword check with the key True: ValueError naming bool
C14_Witness ==
  /\ tc_call.op = "TypeCheck" /\ tc_call.args.arg_kind = "keyword"
  /\ tc_call.args.key.kt = "bool"
  /\ tc_call.exc = "ValueError"
  /\ tc_call.msg = <<"keyword", " arguments require a ", "str", " key, got ", "bool">>

\* C15: validate(value) returns value unchanged when value is an instance of
\* expected_type and otherwise raises TypeError with the message "<message>,
\* got <type name of value>", where <message> is the custom message if one
\* was given and else "Invalid type for argument '<name>': expected <expected
\* type name>" with <name> defaulting to str(key).
C15_ValidateResult ==
  tc_call.op = "validate" =>
    LET given == tc_call.args.given
        value == tc_call.args.value
        name == IF given.name = None THEN KeyStr(given.key) ELSE given.name
        message == IF given.message # <<>> THEN given.message
                   ELSE <<"Invalid type for argument '", name, "': expected ">>
                          \o get_type_name(given.expected_type)
    IN IF \E i \in 1..Len(given.expected_type.members) :
            given.expected_type.members[i] \in Mro(TypeOf(value))
       THEN tc_call.exc = None /\ tc_call.ret = value
       ELSE /\ tc_call.exc = "TypeError"
            /\ tc_call.msg = message \o <<", got ", TypeOf(value)>>

\* a check with a custom message rejects a str
C15_Witness ==
  /\ tc_call.op = "validate" /\ tc_call.exc = "TypeError"
  /\ tc_call.args.given.message = <<"Age must be integer">>
  /\ tc_call.args.given.expected_type = PlainType("int")
  /\ tc_call.args.value = "s"
  /\ tc_call.msg = <<"Age must be integer", ", got ", "str">>

\* the member names joined by " | "
Joined(members) ==
  [k \in 1..(2 * Len(members) - 1) |-> IF k % 2 = 1 THEN members[(k + 1) \div 2] ELSE " | "]

\* the message holds the pieces in a row
Names(msg, pieces) ==
  \E i \in 0..(Len(msg) - Len(pieces)) : SubSeq(msg, i + 1, i + Len(pieces)) = pieces

\* C16 as stated: for a TypeCheck whose expected_type is a union, validate
\* returns value exactly when value is an instance of at least one member
\* type, and otherwise raises TypeError whose message names the expected type
\* as the member names joined by " | ".
C16_UnionMessageNamesMembers ==
  (tc_call.op = "validate" /\ tc_call.args.given.expected_type.form \in {"Union", "UnionType"})
    => LET members == tc_call.args.given.expected_type.members
           value == tc_call.args.value
           is_member == \E i \in 1..Len(members) : members[i] \in Mro(TypeOf(value))
       IN /\ is_member <=> (tc_call.exc = None /\ tc_call.ret = value)
          /\ ~is_member
               => /\ tc_call.exc = "TypeError"
                  /\ Names(tc_call.msg, Joined(members) \o <<", got ", TypeOf(value)>>)

\* C16 (amended): for a TypeCheck whose expected_type is a union, validate
\* returns value exactly when value is an instance of at least one member
\* type, and otherwise raises TypeError; when no custom message was given its
\* message is "Invalid type for argument '<name>': expected <member names
\* joined by ' | '>, got <type name of value>", and when one was given it is
\* that message followed by ", got <type name of value>", which does not name
\* the expected type.
C16_UnionValidation ==
  (tc_call.op = "validate" /\ tc_call.args.given.expected_type.form \in {"Union", "UnionType"})
    => LET given == tc_call.args.given
           members == given.expected_type.members
           value == tc_call.args.value
           name == IF given.name = None THEN KeyStr(given.key) ELSE given.name
           is_member == \E i \in 1..Len(members) : members[i] \in Mro(TypeOf(value))
       IN /\ is_member <=> (tc_call.exc = None /\ tc_call.ret = value)
          /\ ~is_member
               => /\ tc_call.exc = "TypeError"
                  /\ given.message = <<>>
                       => tc_call.msg = <<"Invalid type for argument '", name, "': expected ">>
                                          \o Joined(members) \o <<", got ", TypeOf(value)>>
                  /\ given.message # <<>>
                       => tc_call.msg = given.message \o <<", got ", TypeOf(value)>>

\* int | str with the default message rejects a float
C16_Witness ==
  /\ tc_call.op = "validate" /\ tc_call.exc = "TypeError"
  /\ tc_call.args.given.expected_type = UnionType(<<"int", "str">>)
  /\ tc_call.args.given.message = <<>> /\ tc_call.args.given.name = None
  /\ tc_call.args.given.key = StrKey("age")
  /\ tc_call.args.value = "5.5"
  /\ tc_call.msg = <<"Invalid type for argument '", "age", "': expected ", "int", " | ", "str",
                     ", got ", "float">>

\* C17: from_dict(d) builds the same TypeCheck as the constructor called with
\* d's key, expected_type, message and name (and raises what it raises):
\* arg_kind is POSITIONAL when absent, an ArgKind is used as is, a string is
\* converted to the ArgKind with that value, and an arg_kind of any other type
\* raises TypeError without constructing a check.
C17_FromDictAsConstructor ==
  tc_call.op = "from_dict" =>
    LET d == tc_call.args.data
        cls == tc_call.args.cls
        got == Result(tc_call.exc, tc_call.msg, tc_call.ret)
        built(kind) == TypeCheck_init(cls, d.key, d.expected_type, kind, d.message, d.name)
    IN /\ d.arg_kind.t \notin {"absent", "ArgKind", "str"}
            => tc_call.exc = "TypeError" /\ tc_call.ret = <<>>
       /\ (d.key.kt # "absent" /\ d.arg_kind.t = "absent") => got = built("positional")
       /\ (d.key.kt # "absent" /\ d.arg_kind.t = "ArgKind") => got = built(d.arg_kind.v)
       /\ (d.key.kt # "absent" /\ d.arg_kind.t = "str" /\ d.arg_kind.v \in ArgKinds)
            => got = built(d.arg_kind.v)

\* a dict with the string "keyword" and a str key gives a keyword check
C17_Witness ==
  /\ tc_call.op = "from_dict" /\ tc_call.exc = None
  /\ tc_call.args.data.arg_kind = RawKind("str", "keyword")
  /\ tc_call.args.data.key = StrKey("age")
  /\ tc_call.args.data.message = <<"Age must be integer">>
  /\ tc_call.ret.arg_kind = "keyword" /\ tc_call.ret.key = StrKey("age")
  /\ tc_call.ret.message = <<"Age must be integer">>

ConfigLoaded == step \notin {"off", "parse_args", "load_config"} /\ ~argv.version

IsUpload(e) == e.what = "subprocess.run" /\ Len(e.detail) >= 3 /\ e.detail[2] = "twine" /\ e.detail[3] = "upload"
IsTokenLookup(e) == e.what \in {"os.environ.get", "keyring.get_password"}
IsPrompt(e) == e.what = "input"
IsBuild(e) == e.what = "subprocess.run" /\ e.detail = <<"-m", "build">>

\* C19: publish script -- when --path is not passed on the command line and
\* the TOML config file sets [package].path, the package root main works on
\* is that configured path.
C19_TomlPathUsedWithoutPathOption ==
  (/\ ConfigLoaded
   /\ ~argv.path.passed
   /\ world.toml.exists /\ "package.path" \in world.toml.has)
    => /\ config.package_path = Path(world.toml.path)
       /\ package_path = resolve(Path(world.toml.path))

\* C20: publish script -- in a run with --dry-run, whatever the target, the
\* config file and the other options, no `twine upload` subprocess is
\* started, no API token is looked up (environment or keyring), no
\* confirmation prompt is shown, and once the config is loaded it is in
\* dry-run mode with the token main hands on being the placeholder.
C20_DryRunNeverUploads ==
  (step # "off" /\ argv.dry_run)
    => /\ \A i \in 1..Len(effects) :
            ~IsUpload(effects[i]) /\ ~IsTokenLookup(effects[i]) /\ ~IsPrompt(effects[i])
       /\ ConfigLoaded => config.dry_run
       /\ step \in {"clean", "build", "upload"} => token = "DRY_RUN_TOKEN"

\* a dry run against PyPI with confirmation configured builds the package,
\* goes through upload_package and ends with exit code 0
C20_Witness ==
  /\ step = "returned" /\ argv.dry_run /\ ~argv.version
  /\ exit_code = 0
  /\ config.target = "prod" /\ config.confirm
  /\ \E i \in 1..Len(effects) : IsBuild(effects[i])

\* get_token has been called in this run
TokenLookedUp == \E i \in 1..Len(effects) : effects[i].what = "os.environ.get"

\* the three sources of a token for the target, in the documented order
TokenSources ==
  <<world.environ[IF config.target = "test" THEN "TESTPYPI_TOKEN" ELSE "PYPI_TOKEN"],
    IF config.target = "test" THEN config.test_token ELSE config.prod_token,
    IF world.ring.installed /\ ~world.ring.raises THEN world.ring.password ELSE None>>

\* C21: publish script -- for the targets 'test' and 'prod', the token
\* get_token returns is the one of the first source that has a non-empty
\* one, in the order environment variable (TESTPYPI_TOKEN / PYPI_TOKEN),
\* token of the config object for the target, system keyring; it is None
\* when none of the three has one, and main then returns 1.
C21_TokenFromFirstSource ==
  (step # "off" /\ TokenLookedUp /\ config.target \in {"test", "prod"})
    => LET having == SelectSeq(TokenSources, LAMBDA t : t \notin {None, ""})
       IN /\ token = IF having = <<>> THEN None ELSE having[1]
          /\ having = <<>> => step = "returned" /\ exit_code = 1

\* the environment variable is set but empty, the config object has a token
\* and so has the keyring: the token is the config object's
C21_Witness ==
  /\ step = "clean" /\ TokenLookedUp
  /\ config.target = "prod"
  /\ world.environ.PYPI_TOKEN = ""
  /\ config.prod_token = "cfg-prod-token"
  /\ world.ring.password = "keyring-token"
  /\ token = "cfg-prod-token"

\* the call is past _validate_arguments, or has ended in it
PastValidation == pc \in {"done", "await_handler", "await_func"} /\ CallBinds

Unresolvable(i) == ~Resolvable(EvaluatedChecks[i])

\* C22: both decorator modules -- _validate_arguments never raises: for a
\* call that binds it returns one result per check that is not skipped, a
\* check whose argument cannot be resolved (a positional index not below the
\* number of bound parameters, a plain keyword TypeCheck whose key names no
\* bound parameter) has a result with passed = False, and the failure
\* handler is then invoked.
C22_ValidateNeverRaises ==
  PastValidation
    => /\ validated
       /\ Len(all_results) = Len(EvaluatedChecks)
       /\ \A i \in 1..Len(EvaluatedChecks) :
            Unresolvable(i) => /\ all_results[i].type_check.key = EvaluatedChecks[i].key
                               /\ ~all_results[i].passed
       /\ (\E i \in 1..Len(EvaluatedChecks) : Unresolvable(i)) => handler_calls # <<>>

\* C23: both decorator modules -- every TypeCheckResult of a call carries
\* the value bound in that call to the parameter its own check refers to; a
\* result of a check that refers to no bound parameter carries no argument
\* value (never one resolved for another check of the call).
C23_ResultCarriesOwnValue ==
  (PastValidation /\ validated)
    => /\ Len(all_results) = Len(EvaluatedChecks)
       /\ \A i \in 1..Len(EvaluatedChecks) :
            /\ all_results[i].type_check.key = EvaluatedChecks[i].key
            /\ all_results[i].value = IF Unresolvable(i) THEN None ELSE ValueFor(EvaluatedChecks[i])

\* the call passes keyword n with a value that is not an instance of tp
PassesWrongKeyword(n, tp) ==
  /\ KwIndex(call.kwargs, n) # 0
  /\ ~IsInstance(call.kwargs[KwIndex(call.kwargs, n)][2], tp.members)

\* C24: typesentinel.decorator -- for a function decorated with the keyword
\* shorthand @type_check(a=T), every call that binds and passes keyword a
\* with a value that is not an instance of T invokes the failure handler,
\* whatever the signature of the function, a function that takes a through
\* **kwargs included.
C24_ShorthandChecksSuppliedKeyword ==
  (/\ IsNew /\ dec.form = "params" /\ PastValidation
   /\ \E i \in 1..Len(Checks) :
        /\ Checks[i].cls = "DefaultTypeCheckKwarg"
        /\ PassesWrongKeyword(Checks[i].key.s, Checks[i].expected_type))
    => handler_calls # <<>>

\* the value the call gives the i-th declared parameter: the argument passed
\* in its position, else the keyword argument of its name, else its default
\* (for *args and **kwargs, the tuple or dict of what is left over)
DeclaredValue(i) ==
  IF Params[i].kind \in {"VAR_POSITIONAL", "VAR_KEYWORD"} THEN Bound.values[i]
  ELSE IF i <= NumPositional(Params) /\ i <= Len(call.args) THEN call.args[i]
  ELSE IF Params[i].kind # "POSITIONAL_ONLY" /\ KwIndex(call.kwargs, Params[i].name) # 0
  THEN call.kwargs[KwIndex(call.kwargs, Params[i].name)][2]
  ELSE Params[i].default

InRangePositional(tc) ==
  tc.arg_kind = "positional" /\ 0 <= tc.key.i /\ tc.key.i < Len(Params)

\* C25: typesentinel.decorator -- a positional TypeCheck with key k,
\* 0 <= k < number of declared parameters, is evaluated against the value
\* bound to the k-th declared parameter in signature order after defaults
\* are applied: its result carries that value and passes exactly when the
\* value is an instance of the expected type, whether the argument was passed
\* positionally, by keyword, or left to its default.
C25_PositionalCheckByDeclaredIndex ==
  (IsNew /\ PastValidation /\ validated)
    => /\ Len(all_results) = Len(EvaluatedChecks)
       /\ \A i \in 1..Len(EvaluatedChecks) :
            LET tc == EvaluatedChecks[i]
            IN InRangePositional(tc)
                 => /\ all_results[i].type_check.key = tc.key
                    /\ all_results[i].value = DeclaredValue(tc.key.i + 1)
                    /\ all_results[i].passed
                         = IsInstance(DeclaredValue(tc.key.i + 1), tc.expected_type.members)

\* a positional check at index 1 evaluated against the default of an omitted
\* parameter
C25_Witness ==
  /\ IsNew /\ pc = "done" /\ validated
  /\ dec.func.name = "fn_default" /\ call.args = <<"1">> /\ call.kwargs = <<>>
  /\ \E i \in 1..Len(all_results) :
       /\ all_results[i].type_check.arg_kind = "positional"
       /\ all_results[i].type_check.key = IntKey(1)
       /\ all_results[i].value = "s" /\ ~all_results[i].passed

\* the checks bare @type_check derives from the annotations of the function
BareChecks == annotation_type_checks(Params, 1)

\* C26: typesentinel.decorator -- a function decorated with
\* @type_check(on_failure=h), no explicit checks and no keyword shorthand,
\* has its annotated parameters checked as with bare @type_check: a call
\* that binds yields one result per derived check that is not skipped, and
\* when an argument is not an instance of its annotation the handler h is
\* called.
C26_HandlerOnlyFormChecksAnnotations ==
  (/\ IsNew /\ dec.form = "params" /\ dec.on_failure # "none" /\ Checks = <<>>
   /\ pc = "done")
    => /\ Checks = BareChecks
       /\ CallBinds
            => LET evaluated == SelectSeq(BareChecks, LAMBDA tc : ~Skipped(tc))
               IN /\ ResultKeys(all_results) = CheckKeys(evaluated)
                  /\ (\E i \in 1..Len(evaluated) : ~CheckPasses(evaluated[i]))
                       => /\ handler_calls # <<>>
                          /\ handler_calls[1].who = "custom"

\* the name the check of a result is to carry, for a check declared as tc
NameInResult(tc) ==
  IF tc.name # KeyStr(tc.key) THEN tc.name
  ELSE IF InRangePositional(tc) THEN Params[tc.key.i + 1].name
  ELSE KeyStr(tc.key)

Cached == {n \in FuncNames : signature_cache[n].cached}

\* C29: the signature cache of a TypeCheckDecorator is a pure memo: after
\* any sequence of applications it holds exactly one entry per distinct
\* function the decorator was applied to, each function was inspected once,
\* an entry is the function's signature as it was when first inspected, no
\* entry is ever removed or replaced, and applying the decorator again to a
\* cached function does not inspect it again.
C29_SignatureCacheIsMemo ==
  /\ [](/\ Cached = applied
        /\ \A n \in FuncNames : inspections[n] = IF n \in applied THEN 1 ELSE 0)
  /\ [][\A n \in FuncNames :
          /\ n \in Cached
               => /\ signature_cache'[n] = signature_cache[n]
                  /\ inspections'[n] = inspections[n]
          /\ (n \notin Cached /\ signature_cache'[n].cached)
               => signature_cache'[n].signature = Signature(n, func_signature[n])]_vars

\* a function was cached, then given another signature, then decorated
\* again: the entry is still the signature first inspected, and another
\* function is cached beside it
C29_Witness ==
  /\ Cardinality(applied) = 2
  /\ \E n \in Cached :
       /\ func_signature[n] = "changed"
       /\ signature_cache[n].signature = Signature(n, "defined")
       /\ inspections[n] = 1

(***************************************************************************)
(* The older wrappers: the handler first, then the wrapped function.       *)
(***************************************************************************)
\* what the handler of the older module does with the failed results
OldHandlerOutcome ==
  IF dec.on_failure = "none"
  THEN OldDefaultHandlerBody(failed_results)
  ELSE CustomHandlerBody(dec.on_failure)

====
